---- MODULE Spec2Model ----
(***************************************************************************)
(* A model of the RV32IM emulator: the register file, the memory bus with  *)
(* its text and DRAM regions, the decoder, fetch, the execution engine     *)
(* with its syscalls, the debugger loop of Cpu32Bit::step and the driver   *)
(* loop of main.                                                           *)
(*                                                                         *)
(* A 32-bit value (u32, or i32 read as its bit pattern) is a pair          *)
(* <<hi, lo>> of 16-bit halves, because the model checker's integers are   *)
(* 32-bit signed.  Every operation below keeps the 32-bit width.           *)
(***************************************************************************)
EXTENDS Integers, Sequences, FiniteSets, TLC

----------------------------------------------------------------------------
(* 32-bit words *)

H == 2^16

W(hi, lo) == <<hi, lo>>

Hi(w) == w[1]

Lo(w) == w[2]

Word == (0 .. H - 1) \X (0 .. H - 1)

Zero32 == W(0, 0)

\* u32::from(b) for a bool b
FromBool(b) == IF b THEN W(0, 1) ELSE W(0, 0)

\* u32::from(x) for a u8 or small usize x
FromInt(x) == W(0, x)

\* a + b computed in 33 bits: <<carry, hi, lo>>
AddWide(a, b) ==
  LET lo == Lo(a) + Lo(b)
      hi == Hi(a) + Hi(b) + (lo \div H)
  IN  <<hi \div H, hi % H, lo % H>>

\* u32::wrapping_add, u32::wrapping_add_signed (the same bits)
wrapping_add(a, b) == LET s == AddWide(a, b) IN W(s[2], s[3])

\* whether a + b leaves the u32 range (a checked build panics there)
AddOverflows(a, b) == AddWide(a, b)[1] = 1

Not32(a) == W(H - 1 - Hi(a), H - 1 - Lo(a))

Neg32(a) == wrapping_add(Not32(a), W(0, 1))

\* u32::wrapping_sub / i32 subtraction on bit patterns
wrapping_sub(a, b) == wrapping_add(a, Neg32(b))

\* a < b as u32
LtU(a, b) == Hi(a) < Hi(b) \/ (Hi(a) = Hi(b) /\ Lo(a) < Lo(b))

LeU(a, b) == a = b \/ LtU(a, b)

\* bit 31
IsNeg(a) == Hi(a) >= 2^15

\* (a as i32) < (b as i32)
LtS(a, b) ==
  IF IsNeg(a) = IsNeg(b) THEN LtU(a, b) ELSE IsNeg(a)

RECURSIVE And16(_, _)
And16(x, y) ==
  IF x = 0 \/ y = 0 THEN 0
  ELSE (x % 2) * (y % 2) + 2 * And16(x \div 2, y \div 2)

RECURSIVE Or16(_, _)
Or16(x, y) ==
  IF x = 0 THEN y
  ELSE IF y = 0 THEN x
  ELSE (IF x % 2 = 1 \/ y % 2 = 1 THEN 1 ELSE 0) + 2 * Or16(x \div 2, y \div 2)

RECURSIVE Xor16(_, _)
Xor16(x, y) ==
  IF x = 0 THEN y
  ELSE IF y = 0 THEN x
  ELSE ((x + y) % 2) + 2 * Xor16(x \div 2, y \div 2)

\* a & b
And32(a, b) == W(And16(Hi(a), Hi(b)), And16(Lo(a), Lo(b)))

\* a | b
Or32(a, b) == W(Or16(Hi(a), Hi(b)), Or16(Lo(a), Lo(b)))

\* a ^ b
Xor32(a, b) == W(Xor16(Hi(a), Hi(b)), Xor16(Lo(a), Lo(b)))

\* a << n for 0 <= n <= 31, bits shifted out are lost
Shl32(a, n) ==
  IF n >= 16
  THEN W((Lo(a) * 2^(n - 16)) % H, 0)
  ELSE LET lo == Lo(a) * 2^n
       IN  W(((Hi(a) * 2^n) % H) + (lo \div H), lo % H)

\* a >> n on a u32 (zero fill) for 0 <= n <= 31
Shr32(a, n) ==
  IF n >= 16
  THEN W(0, Hi(a) \div 2^(n - 16))
  ELSE W(Hi(a) \div 2^n, ((Hi(a) % 2^n) * 2^(16 - n)) + (Lo(a) \div 2^n))

\* a >> n on an i32 (sign fill) for 0 <= n <= 31
Sar32(a, n) ==
  IF IsNeg(a) THEN Not32(Shr32(Not32(a), n)) ELSE Shr32(a, n)

----------------------------------------------------------------------------
(* Memory regions and the memory bus (emulator/cpu/memory.rs) *)

STACK_CEILING == W(32767, 61436)   \* 0x7FFF_EFFC

DRAM_END == W(32768, 0)            \* 0x8000_0000

\* the 4 KiB guard between the end of the code and DRAM, 0x1000
DramGuard == W(0, 4096)

\* Size::Byte, Size::Half, Size::Word
Size == {"Byte", "Half", "Word"}

\* size_of_access in bytes
SizeBytes(size) == CASE size = "Byte" -> 1 [] size = "Half" -> 2 [] size = "Word" -> 4

(* A region's buffer `data` is zero-filled at construction and up to 2 GiB   *)
(* long, so it is kept as the function from the offsets (words) of its      *)
(* non-zero bytes to those bytes; every other offset below `size` holds 0.  *)
DataGet(data, index) == IF index \in DOMAIN data THEN data[index] ELSE 0

DataSet(data, index, byte) ==
  IF byte = 0
  THEN [k \in DOMAIN data \ {index} |-> data[k]]
  ELSE [k \in DOMAIN data \cup {index} |-> IF k = index THEN byte ELSE data[k]]

\* whether data[index + k] is inside the buffer (indexing outside it panics)
InBuffer(region, index, k) ==
  /\ ~AddOverflows(index, FromInt(k))
  /\ LtU(wrapping_add(index, FromInt(k)), region.size)

\* MemoryRegion::new: a zero-filled buffer of `size` bytes
MemoryRegion_new(base, size) ==
  [base |-> base, size |-> size, data |-> [k \in {} |-> 0]]

\* MemoryRegion::initialize: copy `bytes` to the start of the buffer
initialize(region, bytes) ==
  [region EXCEPT !.data =
     [k \in {FromInt(i - 1) : i \in {j \in 1 .. Len(bytes) : bytes[j] # 0}}
        |-> bytes[Lo(k) + 1]]]

\* the assertion of MemoryRegion::initialize
InitializeFits(region, bytes) == LeU(FromInt(Len(bytes)), region.size)

\* MemoryRegion::write8: [panic, data]
write8(region, addr, val) ==
  LET index == wrapping_sub(addr, region.base)
  IN  IF ~InBuffer(region, index, 0)
      THEN [panic |-> TRUE, data |-> region.data]
      ELSE [panic |-> FALSE,
            data |-> DataSet(region.data, index, Lo(And32(val, W(0, 255))))]

\* mutation of write16: only the low byte is stored
write16_low_byte(region, addr, val) ==
  LET index == wrapping_sub(addr, region.base)
  IN  IF ~InBuffer(region, index, 0) \/ ~InBuffer(region, index, 1)
      THEN [panic |-> TRUE, data |-> region.data]
      ELSE [panic |-> FALSE,
            data |-> DataSet(region.data, index, Lo(And32(val, W(0, 255))))]

\* MemoryRegion::write16: the bytes are stored one by one, low byte first
write16(region, addr, val) ==
  LET index == wrapping_sub(addr, region.base)
      b0 == Lo(And32(val, W(0, 255)))
      b1 == Lo(And32(Shr32(val, 8), W(0, 255)))
      d0 == DataSet(region.data, index, b0)
  IN  IF ~InBuffer(region, index, 0) THEN [panic |-> TRUE, data |-> region.data]
      ELSE IF ~InBuffer(region, index, 1) THEN [panic |-> TRUE, data |-> d0]
      ELSE [panic |-> FALSE,
            data |-> DataSet(d0, wrapping_add(index, FromInt(1)), b1)]

\* mutation of write32: the bytes stored high byte first
write32_big_endian(region, addr, val) ==
  LET index == wrapping_sub(addr, region.base)
      b0 == Lo(And32(Shr32(val, 24), W(0, 255)))
      b1 == Lo(And32(Shr32(val, 16), W(0, 255)))
      b2 == Lo(And32(Shr32(val, 8), W(0, 255)))
      b3 == Lo(And32(val, W(0, 255)))
      d0 == DataSet(region.data, index, b0)
      d1 == DataSet(d0, wrapping_add(index, FromInt(1)), b1)
      d2 == DataSet(d1, wrapping_add(index, FromInt(2)), b2)
      d3 == DataSet(d2, wrapping_add(index, FromInt(3)), b3)
  IN  IF \E k \in 0 .. 3 : ~InBuffer(region, index, k)
      THEN [panic |-> TRUE, data |-> region.data]
      ELSE [panic |-> FALSE, data |-> d3]

\* MemoryRegion::write32: the bytes are stored one by one, low byte first
write32(region, addr, val) ==
  LET index == wrapping_sub(addr, region.base)
      b0 == Lo(And32(val, W(0, 255)))
      b1 == Lo(And32(Shr32(val, 8), W(0, 255)))
      b2 == Lo(And32(Shr32(val, 16), W(0, 255)))
      b3 == Lo(And32(Shr32(val, 24), W(0, 255)))
      d0 == DataSet(region.data, index, b0)
      d1 == DataSet(d0, wrapping_add(index, FromInt(1)), b1)
      d2 == DataSet(d1, wrapping_add(index, FromInt(2)), b2)
      d3 == DataSet(d2, wrapping_add(index, FromInt(3)), b3)
  IN  IF ~InBuffer(region, index, 0) THEN [panic |-> TRUE, data |-> region.data]
      ELSE IF ~InBuffer(region, index, 1) THEN [panic |-> TRUE, data |-> d0]
      ELSE IF ~InBuffer(region, index, 2) THEN [panic |-> TRUE, data |-> d1]
      ELSE IF ~InBuffer(region, index, 3) THEN [panic |-> TRUE, data |-> d2]
      ELSE [panic |-> FALSE, data |-> d3]

\* MemoryRegion::read8: [panic, val]
read8(region, addr) ==
  LET index == wrapping_sub(addr, region.base)
  IN  IF ~InBuffer(region, index, 0)
      THEN [panic |-> TRUE, val |-> Zero32]
      ELSE [panic |-> FALSE, val |-> FromInt(DataGet(region.data, index))]

\* MemoryRegion::read16
read16(region, addr) ==
  LET index == wrapping_sub(addr, region.base)
      B(k) == FromInt(DataGet(region.data, wrapping_add(index, FromInt(k))))
  IN  IF ~InBuffer(region, index, 0) \/ ~InBuffer(region, index, 1)
      THEN [panic |-> TRUE, val |-> Zero32]
      ELSE [panic |-> FALSE, val |-> Or32(B(0), Shl32(B(1), 8))]

\* MemoryRegion::read32
read32(region, addr) ==
  LET index == wrapping_sub(addr, region.base)
      B(k) == FromInt(DataGet(region.data, wrapping_add(index, FromInt(k))))
  IN  IF \E k \in 0 .. 3 : ~InBuffer(region, index, k)
      THEN [panic |-> TRUE, val |-> Zero32]
      ELSE [panic |-> FALSE,
            val |-> Or32(Or32(Or32(B(0), Shl32(B(1), 8)), Shl32(B(2), 16)),
                         Shl32(B(3), 24))]

\* the bounds test that opens MemoryRegion::read and MemoryRegion::write
RegionRejects(region, addr) ==
  LtU(addr, region.base) \/ LtU(wrapping_add(region.base, region.size), addr)

\* Ok(r) of MemoryRegion::read, unless the indexing in r panicked
ReadDone(r) == [res |-> IF r.panic THEN "panic" ELSE "ok", val |-> r.val]

\* MemoryRegion::read: [res, val] with res "ok", "err" (Err returned) or "panic"
MemoryRegion_read(region, addr, size) ==
  IF RegionRejects(region, addr)
  THEN [res |-> "err", val |-> Zero32]
  ELSE ReadDone(CASE size = "Byte" -> read8(region, addr)
                  [] size = "Half" -> read16(region, addr)
                  [] size = "Word" -> read32(region, addr))

\* Ok(()) of MemoryRegion::write, unless the indexing in r panicked
WriteDone(region, r) ==
  [res |-> IF r.panic THEN "panic" ELSE "ok", region |-> [region EXCEPT !.data = r.data]]

\* MemoryRegion::write: [res, region]
MemoryRegion_write(region, addr, value, size) ==
  IF RegionRejects(region, addr)
  THEN [res |-> "err", region |-> region]
  ELSE WriteDone(region, CASE size = "Byte" -> write8(region, addr, value)
                            [] size = "Half" -> write16(region, addr, value)
                            [] size = "Word" -> write32(region, addr, value))

\* MemoryBus::code_size, entrypoint, dram_start, dram_size
code_size(bus) == bus.text.size

entrypoint(bus) == bus.text.base

dram_start(bus) == bus.dram.base

dram_size(bus) == bus.dram.size

\* the first match arm of MemoryBus::read and MemoryBus::write
InTextArm(bus, addr) ==
  /\ LeU(entrypoint(bus), addr)
  /\ LeU(addr, wrapping_add(entrypoint(bus), code_size(bus)))

\* the second match arm of MemoryBus::read and MemoryBus::write
InDramArm(bus, addr) == LeU(dram_start(bus), addr) /\ LeU(addr, DRAM_END)

\* a bus whose DRAM starts right after the code, with no guard
MemoryBus_new_no_guard(entry, code, data) ==
  LET start == wrapping_add(entry, FromInt(Len(code)))
      dram == MemoryRegion_new(start, wrapping_sub(DRAM_END, start))
      text == MemoryRegion_new(entry, wrapping_add(FromInt(Len(code)), FromInt(4)))
  IN  [dram |-> initialize(dram, data), text |-> initialize(text, code)]

\* MemoryBus::new
MemoryBus_new(entry, code, data) ==
  LET start == wrapping_add(wrapping_add(entry, FromInt(Len(code))), DramGuard)
      dram == MemoryRegion_new(start, wrapping_sub(DRAM_END, start))
      text == MemoryRegion_new(entry, wrapping_add(FromInt(Len(code)), FromInt(4)))
  IN  [dram |-> initialize(dram, data), text |-> initialize(text, code)]

\* MemoryBus::read: [res, val]
MemoryBus_read(bus, addr, size) ==
  IF InTextArm(bus, addr) THEN MemoryRegion_read(bus.text, addr, size)
  ELSE IF InDramArm(bus, addr) THEN MemoryRegion_read(bus.dram, addr, size)
  ELSE [res |-> "err", val |-> Zero32]

\* the bus after self.dram.write returned r
DramWritten(bus, r) == [res |-> r.res, bus |-> [bus EXCEPT !.dram = r.region]]

\* mutation of MemoryBus::write: the text arm writes like the DRAM arm
MemoryBus_write_text(bus, addr, value, size) ==
  LET t == MemoryRegion_write(bus.text, addr, value, size)
  IN  IF InTextArm(bus, addr) THEN [res |-> t.res, bus |-> [bus EXCEPT !.text = t.region]]
      ELSE IF InDramArm(bus, addr)
      THEN DramWritten(bus, MemoryRegion_write(bus.dram, addr, value, size))
      ELSE [res |-> "err", bus |-> bus]

\* MemoryBus::write: [res, bus]
MemoryBus_write(bus, addr, value, size) ==
  IF InTextArm(bus, addr) THEN [res |-> "err", bus |-> bus]
  ELSE IF InDramArm(bus, addr)
  THEN DramWritten(bus, MemoryRegion_write(bus.dram, addr, value, size))
  ELSE [res |-> "err", bus |-> bus]

----------------------------------------------------------------------------
(* The decoder (emulator/decode.rs).  An instruction is a record with the  *)
(* fields of its Rv32imInstruction variant; register fields are the        *)
(* RegisterMapping discriminants 0..31; imm is the 32-bit pattern of the   *)
(* i32 or u32 the variant carries.                                         *)

REGISTERS_COUNT == 32

\* TryFrom<u8> for RegisterMapping: whether the conversion is Ok
RegisterMapping_try_from_ok(value) == value < REGISTERS_COUNT

\* a decoder that aborts where it should return its error
DecodeError_abort == [ok |-> FALSE, abort |-> TRUE]

DecodeError == [ok |-> FALSE]

Decoded(instruction) == [ok |-> TRUE, instr |-> instruction]

\* the (opcode, funct3, funct7) table of the R-type arm; "" is the bail! arm
RTypeOperationOf(opcode, funct3, funct7) ==
  CASE opcode = 51 /\ funct3 = 0 /\ funct7 = 0 -> "Add"
    [] opcode = 51 /\ funct3 = 0 /\ funct7 = 32 -> "Sub"
    [] opcode = 51 /\ funct3 = 1 /\ funct7 = 0 -> "Sll"
    [] opcode = 51 /\ funct3 = 2 /\ funct7 = 0 -> "Slt"
    [] opcode = 51 /\ funct3 = 3 /\ funct7 = 0 -> "Sltu"
    [] opcode = 51 /\ funct3 = 4 /\ funct7 = 0 -> "Xor"
    [] opcode = 51 /\ funct3 = 5 /\ funct7 = 0 -> "Srl"
    [] opcode = 51 /\ funct3 = 5 /\ funct7 = 32 -> "Sra"
    [] opcode = 51 /\ funct3 = 6 /\ funct7 = 0 -> "Or"
    [] opcode = 51 /\ funct3 = 7 /\ funct7 = 0 -> "And"
    [] opcode = 51 /\ funct3 = 0 /\ funct7 = 1 -> "Mul"
    [] opcode = 51 /\ funct3 = 1 /\ funct7 = 1 -> "Mulh"
    [] opcode = 51 /\ funct3 = 2 /\ funct7 = 1 -> "Mulhsu"
    [] opcode = 51 /\ funct3 = 3 /\ funct7 = 1 -> "Mulhu"
    [] opcode = 51 /\ funct3 = 4 /\ funct7 = 1 -> "Div"
    [] opcode = 51 /\ funct3 = 5 /\ funct7 = 1 -> "Divu"
    [] opcode = 51 /\ funct3 = 6 /\ funct7 = 1 -> "Rem"
    [] opcode = 51 /\ funct3 = 7 /\ funct7 = 1 -> "Remu"
    [] OTHER -> ""

\* the (opcode, funct3, imm) table of the I-type arm, in the order of its
\* match arms; imm is the zero-extended 12-bit field; "" is the bail! arm
ITypeOperationOf(opcode, funct3, imm) ==
  CASE opcode = 3 /\ funct3 = 0 -> "Lb"
    [] opcode = 3 /\ funct3 = 1 -> "Lh"
    [] opcode = 3 /\ funct3 = 2 -> "Lw"
    [] opcode = 3 /\ funct3 = 4 -> "Lbu"
    [] opcode = 3 /\ funct3 = 5 -> "Lhu"
    [] opcode = 15 /\ funct3 = 0 -> "Fence"
    [] opcode = 15 /\ funct3 = 1 -> "FenceI"
    [] opcode = 19 /\ funct3 = 0 -> "Addi"
    [] opcode = 19 /\ funct3 = 7 -> "Andi"
    [] opcode = 19 /\ funct3 = 6 -> "Ori"
    [] opcode = 19 /\ funct3 = 1 /\ Sar32(imm, 5) = W(0, 0) -> "Slli"
    [] opcode = 19 /\ funct3 = 5 /\ Sar32(imm, 5) = W(0, 0) -> "Srli"
    [] opcode = 19 /\ funct3 = 5 /\ Sar32(imm, 5) = W(0, 32) -> "Srai"
    [] opcode = 19 /\ funct3 = 2 -> "Slti"
    [] opcode = 19 /\ funct3 = 3 -> "Sltiu"
    [] opcode = 19 /\ funct3 = 4 -> "Xori"
    [] opcode = 103 /\ funct3 = 0 -> "Jalr"
    [] opcode = 115 /\ funct3 = 0 /\ imm = W(0, 0) -> "Ecall"
    [] opcode = 115 /\ funct3 = 0 /\ imm = W(0, 1) -> "Ebreak"
    [] OTHER -> ""

\* an I-type immediate that keeps the upper seven bits of a shift
ITypeImm_unmasked(operation, imm) ==
  IF operation # "Sltiu" THEN Sar32(Shl32(imm, 20), 20) ELSE imm

\* the I-type immediate as the arm leaves it: masked to 5 bits for the
\* shifts, then sign-extended from bit 11 unless the operation is Sltiu
ITypeImm(operation, imm) ==
  LET masked == IF operation \in {"Slli", "Srli", "Srai"}
                THEN And32(imm, W(0, 31)) ELSE imm
  IN  IF operation # "Sltiu" THEN Sar32(Shl32(masked, 20), 20) ELSE masked

\* the S-type immediate
STypeImm(machine_code) ==
  Sar32(Shl32(Or32(And32(Sar32(machine_code, 7), W(0, 31)),
                   And32(Sar32(machine_code, 20), W(0, 4064))), 20), 20)

\* the SB-type immediate; the trailing << 19 >> 19 binds to the last operand
\* of the | chain only
SBTypeImm(machine_code) ==
  Or32(Or32(Or32(Shl32(Sar32(machine_code, 31), 12),
                 And32(Shl32(machine_code, 4), W(0, 2048))),
            And32(Sar32(machine_code, 20), W(0, 2016))),
       Sar32(Shl32(And32(Sar32(machine_code, 7), W(0, 30)), 19), 19))

\* the UJ-type immediate (a u32, not sign-extended)
UJTypeImm(machine_code) ==
  Or32(Or32(Or32(And32(Shr32(machine_code, 11), W(16, 0)),
                 And32(machine_code, W(15, 61440))),
            And32(Shr32(machine_code, 9), W(0, 2048))),
       And32(Shr32(machine_code, 20), W(0, 2046)))

\* the U-type immediate: the masked word shifted right as an i32
UTypeImm(machine_code) == Sar32(And32(machine_code, W(65535, 61440)), 12)

STypeOperationOf(funct3) ==
  CASE funct3 = 0 -> "Sb" [] funct3 = 1 -> "Sh" [] funct3 = 2 -> "Sw" [] OTHER -> ""

SBTypeOperationOf(funct3) ==
  CASE funct3 = 0 -> "Beq" [] funct3 = 1 -> "Bne" [] funct3 = 4 -> "Blt"
    [] funct3 = 5 -> "Bge" [] funct3 = 6 -> "Bltu" [] funct3 = 7 -> "Bgeu"
    [] OTHER -> ""

\* Decode32BitInstruction for Rv32imInstruction::from_machine_code
from_machine_code(machine_code) ==
  LET opcode == Lo(And32(machine_code, W(0, 127)))
      rd == Lo(And32(Shr32(machine_code, 7), W(0, 31)))
      rs1 == Lo(And32(Shr32(machine_code, 15), W(0, 31)))
      rs2 == Lo(And32(Shr32(machine_code, 20), W(0, 31)))
      funct3 == Lo(And32(Shr32(machine_code, 12), W(0, 7)))
      funct7 == Lo(And32(Shr32(machine_code, 25), W(0, 127)))
      imm12 == And32(Sar32(machine_code, 20), W(0, 4095))
      regs_ok == /\ RegisterMapping_try_from_ok(rd)
                 /\ RegisterMapping_try_from_ok(rs1)
                 /\ RegisterMapping_try_from_ok(rs2)
  IN  CASE opcode \in {51, 59} ->
             LET operation == RTypeOperationOf(opcode, funct3, funct7)
             IN  IF operation = "" \/ ~regs_ok THEN DecodeError
                 ELSE Decoded([type |-> "RType", operation |-> operation, rd |-> rd,
                               funct3 |-> funct3, rs1 |-> rs1, rs2 |-> rs2,
                               funct7 |-> funct7])
        [] opcode \in {3, 15, 19, 27, 103, 115} ->
             LET operation == ITypeOperationOf(opcode, funct3, imm12)
             IN  IF operation = "" \/ ~regs_ok THEN DecodeError
                 ELSE Decoded([type |-> "IType", operation |-> operation, rd |-> rd,
                               funct3 |-> funct3, rs1 |-> rs1,
                               imm |-> ITypeImm(operation, imm12)])
        [] opcode = 35 ->
             LET operation == STypeOperationOf(funct3)
             IN  IF operation = "" \/ ~regs_ok THEN DecodeError
                 ELSE Decoded([type |-> "SType", operation |-> operation, rs1 |-> rs1,
                               rs2 |-> rs2, funct3 |-> funct3,
                               imm |-> STypeImm(machine_code)])
        [] opcode = 99 ->
             LET operation == SBTypeOperationOf(funct3)
             IN  IF operation = "" \/ ~regs_ok THEN DecodeError
                 ELSE Decoded([type |-> "SBType", operation |-> operation, rs1 |-> rs1,
                               rs2 |-> rs2, funct3 |-> funct3,
                               imm |-> SBTypeImm(machine_code)])
        [] opcode = 111 ->
             IF ~regs_ok THEN DecodeError
             ELSE Decoded([type |-> "UJType", operation |-> "Jal", rd |-> rd,
                           imm |-> UJTypeImm(machine_code)])
        [] opcode \in {23, 55} ->
             IF ~regs_ok THEN DecodeError
             ELSE Decoded([type |-> "UType",
                           operation |-> IF opcode = 55 THEN "Lui" ELSE "Auipc",
                           rd |-> rd, imm |-> UTypeImm(machine_code)])
        [] OTHER -> DecodeError

----------------------------------------------------------------------------
(* The register file (emulator/cpu/registers.rs) *)

\* RegisterMapping discriminants used by name
Ra == 1

Sp == 2

Gp == 3

A0 == 10

A1 == 11

A7 == 17

\* RegisterFile32Bit::new
RegisterFile32Bit_new == [r \in 0 .. REGISTERS_COUNT - 1 |-> Zero32]

\* mutation of index_mut: the store without the assertion
index_mut_unchecked(regs, index, value) ==
  [panic |-> FALSE, registers |-> [regs EXCEPT ![index] = value]]

\* IndexMut::index_mut followed by the store through the reference it
\* returns (`regs[index] = value`): the assertion fails for the zero register
index_mut(regs, index, value) ==
  IF index = 0
  THEN [panic |-> TRUE, registers |-> regs]
  ELSE [panic |-> FALSE, registers |-> [regs EXCEPT ![index] = value]]

----------------------------------------------------------------------------
(* Results of the fallible operations.  c is the machine: the fields of    *)
(* Cpu32Bit (registers, pc, memory, debug, output) and the bytes written   *)
(* to the process's stdout.  res is "ok" (Ok(())), "err" (an Err returned  *)
(* to the caller, of kind err) or "panic" (the thread panics).             *)

Ok(c) == [cpu |-> c, res |-> "ok", err |-> "", code |-> Zero32]

\* an error returned with the PC already moved on
Err_pc_advanced(c, kind) ==
  [cpu |-> [c EXCEPT !.pc = wrapping_add(@, W(0, 4))], res |-> "err", err |-> kind,
   code |-> Zero32]

Err(c, kind) == [cpu |-> c, res |-> "err", err |-> kind, code |-> Zero32]

ErrExit(c, code) == [cpu |-> c, res |-> "err", err |-> "ProgramExit", code |-> code]

Panic(c) == [cpu |-> c, res |-> "panic", err |-> "", code |-> Zero32]

\* `regs[rd] = value` inside an execute function
Assign(c, rd, value) ==
  LET w == index_mut(c.registers, rd, value)
  IN  IF w.panic THEN Panic(c) ELSE Ok([c EXCEPT !.registers = w.registers])

\* mutation of SignExtendByte: the byte as read
SignExtendByte_none(v) == v

\* the value a load places in rd: `as u32`, `(.. as i32) << 24 >> 24`,
\* `(.. as i32) << 16 >> 16`
ZeroExtend(v) == v

SignExtendByte(v) == Sar32(Shl32(v, 24), 24)

SignExtendHalf(v) == Sar32(Shl32(v, 16), 16)

\* the cast a load arm applies to the value read
Extended(extension, v) ==
  CASE extension = "SignExtendByte" -> SignExtendByte(v)
    [] extension = "SignExtendHalf" -> SignExtendHalf(v)
    [] extension = "ZeroExtend" -> ZeroExtend(v)

\* `regs[rd] = f(memory.read(addr, size)?)`: the read r and its `?` come first
AssignRead(c, rd, r, extension) ==
  CASE r.res = "err" -> Err(c, "Bus")
    [] r.res = "panic" -> Panic(c)
    [] OTHER -> Assign(c, rd, Extended(extension, r.val))

AssignLoaded(c, rd, addr, size, extension) ==
  AssignRead(c, rd, MemoryBus_read(c.memory, addr, size), extension)

\* a + b on u32 with the `+` operator: a build with overflow checks panics
\* when the sum leaves the range, a build without them wraps
checked_add(a, b, overflow_checks) ==
  [panic |-> overflow_checks /\ AddOverflows(a, b), val |-> wrapping_add(a, b)]

----------------------------------------------------------------------------
(* 64-bit products and 32-bit division for the M extension *)

\* mutation of Bytes64: every operand zero-extended
Bytes64_zero_extended(w, signed) ==
  <<Lo(w) % 256, Lo(w) \div 256, Hi(w) % 256, Hi(w) \div 256, 0, 0, 0, 0>>

\* the 8 little-endian bytes of (w as i32 as i64) if signed, of (w as u64
\* or w as i64 from u32) otherwise
Bytes64(w, signed) ==
  LET fill == IF signed /\ IsNeg(w) THEN 255 ELSE 0
  IN  <<Lo(w) % 256, Lo(w) \div 256, Hi(w) % 256, Hi(w) \div 256,
        fill, fill, fill, fill>>

\* column k (0-based) of the schoolbook product of two 8-byte numbers
MulColumn(x, y, k) ==
  LET F[i \in 0 .. k + 1] ==
        IF i > k THEN 0 ELSE x[i + 1] * y[k - i + 1] + F[i + 1]
  IN  F[0]

\* the low 64 bits of x * y as 8 bytes (i64 or u64 multiplication)
RECURSIVE MulBytes(_, _, _, _)
MulBytes(x, y, k, carry) ==
  IF k = 8 THEN <<>>
  ELSE LET t == MulColumn(x, y, k) + carry
       IN  <<t % 256>> \o MulBytes(x, y, k + 1, t \div 256)

\* bits 63:32 of a 64-bit value given as 8 bytes: (v as u64 >> 32) as u32
High32(v) == W(v[7] + 256 * v[8], v[5] + 256 * v[6])

\* u32::wrapping_mul
wrapping_mul(a, b) ==
  LET v == MulBytes(Bytes64(a, FALSE), Bytes64(b, FALSE), 0, 0)
  IN  W(v[3] + 256 * v[4], v[1] + 256 * v[2])

\* a word below 2^31 as an integer, and back
ToInt(w) == Hi(w) * H + Lo(w)

FromNat(n) == W(n \div H, n % H)

\* u32 division a / b and a % b for b # 0: <<quotient, remainder>>.  The
\* integers at hand stop at 2^31 - 1, so a divisor with bit 31 set gives a
\* quotient of 0 or 1, and a dividend with bit 31 set is divided as
\* 2 * (a >> 1) + (a & 1).
DivRemU(a, b) ==
  IF IsNeg(b)
  THEN IF LtU(a, b) THEN <<Zero32, a>> ELSE <<W(0, 1), wrapping_sub(a, b)>>
  ELSE IF ~IsNeg(a)
  THEN <<FromNat(ToInt(a) \div ToInt(b)), FromNat(ToInt(a) % ToInt(b))>>
  ELSE LET half == ToInt(Shr32(a, 1))
           q2 == Shl32(FromNat(half \div ToInt(b)), 1)
           r2 == wrapping_add(Shl32(FromNat(half % ToInt(b)), 1), W(0, Lo(a) % 2))
       IN  IF LeU(b, r2)
           THEN <<wrapping_add(q2, W(0, 1)), wrapping_sub(r2, b)>>
           ELSE <<q2, r2>>

Abs32(a) == IF IsNeg(a) THEN Neg32(a) ELSE a

I32_MIN == W(32768, 0)

MinusOne == W(65535, 65535)

\* mutation of u32_checked_div: a zero divisor gives all ones, no None
u32_checked_div_total(a, b) ==
  IF b = Zero32 THEN [none |-> FALSE, val |-> Not32(Zero32)]
  ELSE [none |-> FALSE, val |-> DivRemU(a, b)[1]]

\* u32::checked_div, u32::checked_rem: [none, val]
u32_checked_div(a, b) ==
  IF b = Zero32 THEN [none |-> TRUE, val |-> Zero32]
  ELSE [none |-> FALSE, val |-> DivRemU(a, b)[1]]

u32_checked_rem(a, b) ==
  IF b = Zero32 THEN [none |-> TRUE, val |-> Zero32]
  ELSE [none |-> FALSE, val |-> DivRemU(a, b)[2]]

\* i32::checked_div, i32::checked_rem: None for a zero divisor and for the
\* overflowing pair MIN / -1; otherwise truncation toward zero
i32_checked_div(a, b) ==
  IF b = Zero32 \/ (a = I32_MIN /\ b = MinusOne)
  THEN [none |-> TRUE, val |-> Zero32]
  ELSE LET q == DivRemU(Abs32(a), Abs32(b))[1]
       IN  [none |-> FALSE, val |-> IF IsNeg(a) # IsNeg(b) THEN Neg32(q) ELSE q]

i32_checked_rem(a, b) ==
  IF b = Zero32 \/ (a = I32_MIN /\ b = MinusOne)
  THEN [none |-> TRUE, val |-> Zero32]
  ELSE LET r == DivRemU(Abs32(a), Abs32(b))[2]
       IN  [none |-> FALSE, val |-> IF IsNeg(a) THEN Neg32(r) ELSE r]

----------------------------------------------------------------------------
(* Text written by the print syscalls.  A string is the sequence of its     *)
(* character codes.                                                         *)

\* u32 Display (`to_string`, "{}"): decimal digits, no sign
RECURSIVE u32_to_string(_)
u32_to_string(w) ==
  LET qr == DivRemU(w, W(0, 10))
  IN  IF LtU(w, W(0, 10)) THEN <<48 + Lo(w)>>
      ELSE u32_to_string(qr[1]) \o <<48 + Lo(qr[2])>>

HexDigit(d) == IF d < 10 THEN 48 + d ELSE 87 + d

RECURSIVE HexDigits(_)
HexDigits(w) ==
  IF LtU(w, W(0, 16)) THEN <<HexDigit(Lo(w))>>
  ELSE HexDigits(Shr32(w, 4)) \o <<HexDigit(Lo(w) % 16)>>

RECURSIVE BinDigits(_)
BinDigits(w) ==
  IF LtU(w, W(0, 2)) THEN <<48 + Lo(w)>>
  ELSE BinDigits(Shr32(w, 1)) \o <<48 + (Lo(w) % 2)>>

\* format!("{:#x}", w) and format!("{:#b}", w)
FormatHex(w) == <<48, 120>> \o HexDigits(w)

FormatBin(w) == <<48, 98>> \o BinDigits(w)

\* str::trim on an ASCII line
IsSpace(ch) == ch \in {9, 10, 11, 12, 13, 32}

RECURSIVE TrimStart(_)
TrimStart(line) ==
  IF line # <<>> /\ IsSpace(Head(line)) THEN TrimStart(Tail(line)) ELSE line

RECURSIVE TrimEnd(_)
TrimEnd(line) ==
  IF line # <<>> /\ IsSpace(line[Len(line)])
  THEN TrimEnd(SubSeq(line, 1, Len(line) - 1)) ELSE line

trim(line) == TrimEnd(TrimStart(line))

I32_MAX_INT == 32767 * H + (H - 1)

\* the digits of str::parse::<i32>, accumulated as the library does: upward
\* for a positive number, downward for a negative one, failing on overflow
RECURSIVE ParseDigits(_, _, _)
ParseDigits(digits, acc, negative) ==
  IF digits = <<>> THEN [ok |-> TRUE, val |-> acc]
  ELSE LET d == Head(digits) - 48
       IN  IF d < 0 \/ d > 9 THEN [ok |-> FALSE, val |-> 0]
           ELSE IF negative
           THEN IF acc < ((-I32_MAX_INT - 1) + d + 9) \div 10
                THEN [ok |-> FALSE, val |-> 0]
                ELSE ParseDigits(Tail(digits), acc * 10 - d, negative)
           ELSE IF acc > (I32_MAX_INT - d) \div 10
                THEN [ok |-> FALSE, val |-> 0]
                ELSE ParseDigits(Tail(digits), acc * 10 + d, negative)

\* (i as u32) for an i32 held as an integer
I32ToWord(i) == IF i >= 0 THEN FromNat(i) ELSE Not32(FromNat(-(i + 1)))

\* str::parse::<i32>() as u32: [ok, val]
parse_i32(str) ==
  LET signed == str # <<>> /\ Head(str) \in {43, 45}
      digits == IF signed THEN Tail(str) ELSE str
      r == ParseDigits(digits, 0, str # <<>> /\ Head(str) = 45)
  IN  IF digits = <<>> \/ ~r.ok THEN [ok |-> FALSE, val |-> Zero32]
      ELSE [ok |-> TRUE, val |-> I32ToWord(r.val)]

\* a buffer that holds the last text written only
Emit_replace(c, toBuffer, toStdout) ==
  [c EXCEPT !.output = toBuffer, !.stdout = @ \o toStdout]

\* output.push / print! of text: the output buffer and stdout both grow
Emit(c, toBuffer, toStdout) ==
  [c EXCEPT !.output = @ \o toBuffer, !.stdout = @ \o toStdout]

----------------------------------------------------------------------------
(* Syscalls (emulator/execute.rs, process_ecall) *)

\* a conversion that looks at the low half of the number only
Syscall_from_u16(value) ==
  CASE Lo(value) = 1 -> "PrintInt"
    [] Lo(value) = 4 -> "PrintString"
    [] Lo(value) = 5 -> "ReadInt"
    [] Lo(value) = 8 -> "ReadString"
    [] Lo(value) = 10 -> "Exit"
    [] Lo(value) = 11 -> "PrintChar"
    [] Lo(value) = 12 -> "ReadChar"
    [] Lo(value) = 30 -> "Time"
    [] Lo(value) = 32 -> "Sleep"
    [] Lo(value) = 34 -> "PrintIntHex"
    [] Lo(value) = 35 -> "PrintIntBinary"
    [] Lo(value) = 36 -> "PrintIntUnsigned"
    [] Lo(value) = 93 -> "Exit2"
    [] OTHER -> "UnSupported"

\* From<u32> for Syscall
Syscall_from(value) ==
  IF Hi(value) # 0 THEN "UnSupported"
  ELSE CASE Lo(value) = 1 -> "PrintInt"
         [] Lo(value) = 4 -> "PrintString"
         [] Lo(value) = 5 -> "ReadInt"
         [] Lo(value) = 8 -> "ReadString"
         [] Lo(value) = 10 -> "Exit"
         [] Lo(value) = 11 -> "PrintChar"
         [] Lo(value) = 12 -> "ReadChar"
         [] Lo(value) = 30 -> "Time"
         [] Lo(value) = 32 -> "Sleep"
         [] Lo(value) = 34 -> "PrintIntHex"
         [] Lo(value) = 35 -> "PrintIntBinary"
         [] Lo(value) = 36 -> "PrintIntUnsigned"
         [] Lo(value) = 93 -> "Exit2"
         [] OTHER -> "UnSupported"

\* one turn of the loop of Syscall::PrintString after memory.read returned
\* r: [done, r] with r the result of the syscall when done, and the CPU
\* and the next address otherwise
PrintStringTurn(c, addr, r, overflow_checks) ==
  CASE r.res = "err" -> [done |-> TRUE, r |-> Err(c, "Syscall")]
    [] r.res = "panic" -> [done |-> TRUE, r |-> Panic(c)]
    [] r.val = Zero32 -> [done |-> TRUE, r |-> Ok(c)]
    [] checked_add(addr, W(0, 1), overflow_checks).panic ->
         [done |-> TRUE, r |-> Panic(Emit(c, <<Lo(r.val) % 256>>, <<Lo(r.val) % 256>>))]
    [] OTHER ->
         [done |-> FALSE, r |-> Ok(Emit(c, <<Lo(r.val) % 256>>, <<Lo(r.val) % 256>>))]

\* the loop of Syscall::PrintString, from address addr on
RECURSIVE PrintStringLoop(_, _, _)
RECURSIVE PrintStringNext(_, _, _)
PrintStringLoop(c, addr, overflow_checks) ==
  PrintStringNext(PrintStringTurn(c, addr, MemoryBus_read(c.memory, addr, "Byte"),
                                  overflow_checks),
                  addr, overflow_checks)

PrintStringNext(turn, addr, overflow_checks) ==
  IF turn.done THEN turn.r
  ELSE PrintStringLoop(turn.r.cpu, wrapping_add(addr, W(0, 1)), overflow_checks)

\* the result of memory.write(at.val, ..)? where at is `addr + i as u32`
\* and w is what the bus returned
StringWritten(c, at, w) ==
  CASE at.panic -> Panic(c)
    [] w.res = "err" -> Err(c, "Bus")
    [] w.res = "panic" -> Panic([c EXCEPT !.memory = w.bus])
    [] OTHER -> Ok([c EXCEPT !.memory = w.bus])

\* memory.write(addr + i as u32, value, Size::Byte)?
WriteString(c, addr, i, value, overflow_checks) ==
  StringWritten(c, checked_add(addr, FromInt(i), overflow_checks),
                MemoryBus_write(c.memory, wrapping_add(addr, FromInt(i)), value, "Byte"))

\* the copy loop of Syscall::ReadString and the terminator written after
\* it; i bytes have been copied, `rest` is what is left of the line
RECURSIVE ReadStringLoop(_, _, _, _, _, _)
RECURSIVE ReadStringNext(_, _, _, _, _, _)
ReadStringLoop(c, addr, max_len, rest, i, overflow_checks) ==
  CASE rest = <<>> -> WriteString(c, addr, i, Zero32, overflow_checks)
    \* i >= max_len - 1, a usize subtraction
    [] max_len = Zero32 /\ overflow_checks -> Panic(c)
    [] max_len # Zero32 /\ ~LtU(FromInt(i), wrapping_sub(max_len, W(0, 1))) ->
         WriteString(c, addr, i, Zero32, overflow_checks)
    [] OTHER ->
         ReadStringNext(WriteString(c, addr, i, FromInt(Head(rest)), overflow_checks),
                        addr, max_len, rest, i, overflow_checks)

ReadStringNext(w, addr, max_len, rest, i, overflow_checks) ==
  IF w.res # "ok" THEN w
  ELSE ReadStringLoop(w.cpu, addr, max_len, Tail(rest), i + 1, overflow_checks)

(* env is what the host hands to one step: stdin_ok (whether read_line     *)
(* succeeds), stdin (the line it returns) and time (the Unix time in       *)
(* milliseconds as <<bits 63:32, bits 31:0>>).                             *)
process_ecall(c, env, overflow_checks) ==
  LET regs == c.registers
      a0 == regs[A0]
      syscall == Syscall_from(regs[A7])
      SetA0(v) == Assign(c, A0, v)
  IN  CASE syscall = "PrintInt" ->
             Ok(Emit(c, u32_to_string(a0), u32_to_string(a0)))
        [] syscall = "PrintString" -> PrintStringLoop(c, a0, overflow_checks)
        [] syscall = "ReadInt" ->
             IF ~env.stdin_ok THEN Err(c, "Syscall")
             ELSE LET v == parse_i32(trim(env.stdin))
                  IN  IF v.ok THEN SetA0(v.val) ELSE Err(c, "Syscall")
        [] syscall = "ReadString" ->
             IF ~env.stdin_ok THEN Err(c, "Syscall")
             ELSE ReadStringLoop(c, a0, regs[A1], env.stdin, 0, overflow_checks)
        [] syscall = "Exit" -> ErrExit(c, Zero32)
        [] syscall = "PrintChar" ->
             LET out == Lo(And32(a0, W(0, 255)))
             IN  Ok(Emit(c, <<out>>, <<out, 10>>))
        [] syscall = "ReadChar" ->
             IF ~env.stdin_ok THEN Err(c, "Syscall")
             ELSE IF trim(env.stdin) = <<>> THEN Panic(c)
             ELSE SetA0(FromInt(Head(trim(env.stdin)) % 256))
        [] syscall = "Time" ->
             LET r == Assign(c, A0, env.time[2])
             IN  Assign(r.cpu, A1, env.time[1])
        [] syscall = "Sleep" -> Ok(c)
        [] syscall = "PrintIntHex" -> Ok(Emit(c, FormatHex(a0), FormatHex(a0)))
        [] syscall = "PrintIntBinary" -> Ok(Emit(c, FormatBin(a0), FormatBin(a0)))
        [] syscall = "PrintIntUnsigned" ->
             Ok(Emit(c, u32_to_string(a0), u32_to_string(a0)))
        [] syscall = "Exit2" -> ErrExit(c, a0)
        [] OTHER -> Err(c, "UnsupportedSyscall")

----------------------------------------------------------------------------
(* The execution engine (emulator/execute.rs) *)

\* the link of jalr, were it written before the target is computed
LinkBeforeJump(c, rd, rs1, imm, t) ==
  LET linked == Assign(c, rd, t).cpu
  IN  Ok([linked EXCEPT
            !.pc = And32(wrapping_add(linked.registers[rs1], imm), Not32(W(0, 1)))])

\* the link of jalr, written after pc has been set
LinkAfterJump(c, rd, rs1, imm, t) ==
  Assign([c EXCEPT !.pc = And32(wrapping_add(c.registers[rs1], imm), Not32(W(0, 1)))],
         rd, t)

\* the Jalr arm of execute_itype_instruction
jalr(c, rd, rs1, imm, overflow_checks) ==
  LET t == checked_add(c.pc, W(0, 4), overflow_checks)
      target == And32(wrapping_add(c.registers[rs1], imm), Not32(W(0, 1)))
  IN  IF t.panic THEN Panic(c)
      ELSE IF rd # 0 THEN LinkAfterJump(c, rd, rs1, imm, t.val)
      ELSE Ok([c EXCEPT !.pc = target])

\* an engine whose andi is an ori
execute_itype_instruction_andi_or(c, operation, rd, rs1, imm, env, overflow_checks) ==
  LET regs == c.registers
      shamt == Lo(And32(imm, W(0, 31)))
      addr == wrapping_add(regs[rs1], imm)
  IN  CASE operation = "Addi" -> Assign(c, rd, wrapping_add(regs[rs1], imm))
        [] operation = "Andi" -> Assign(c, rd, Or32(regs[rs1], imm))
        [] operation = "Jalr" -> jalr(c, rd, rs1, imm, overflow_checks)
        [] operation = "Lb" -> AssignLoaded(c, rd, addr, "Byte", "SignExtendByte")
        [] operation = "Lh" -> AssignLoaded(c, rd, addr, "Half", "SignExtendHalf")
        [] operation = "Lw" -> AssignLoaded(c, rd, addr, "Word", "ZeroExtend")
        [] operation = "Ori" -> Assign(c, rd, Or32(regs[rs1], imm))
        [] operation = "Slli" -> Assign(c, rd, Shl32(regs[rs1], shamt))
        [] operation = "Slti" -> Assign(c, rd, FromBool(LtS(regs[rs1], imm)))
        [] operation = "Sltiu" -> Assign(c, rd, FromBool(LtU(regs[rs1], imm)))
        [] operation = "Srai" -> Assign(c, rd, Sar32(regs[rs1], shamt))
        [] operation = "Srli" -> Assign(c, rd, Shr32(regs[rs1], shamt))
        [] operation = "Xori" -> Assign(c, rd, Xor32(regs[rs1], imm))
        [] operation = "Lbu" -> AssignLoaded(c, rd, addr, "Byte", "ZeroExtend")
        [] operation = "Lhu" -> AssignLoaded(c, rd, addr, "Half", "ZeroExtend")
        \* unimplemented!()
        [] operation = "Fence" -> Panic(c)
        [] operation = "FenceI" -> Panic(c)
        [] operation = "Ecall" -> process_ecall(c, env, overflow_checks)
        [] operation = "Ebreak" -> Ok([c EXCEPT !.debug = TRUE])

execute_itype_instruction(c, operation, rd, rs1, imm, env, overflow_checks) ==
  LET regs == c.registers
      shamt == Lo(And32(imm, W(0, 31)))
      addr == wrapping_add(regs[rs1], imm)
  IN  CASE operation = "Addi" -> Assign(c, rd, wrapping_add(regs[rs1], imm))
        [] operation = "Andi" -> Assign(c, rd, And32(regs[rs1], imm))
        [] operation = "Jalr" -> jalr(c, rd, rs1, imm, overflow_checks)
        [] operation = "Lb" -> AssignLoaded(c, rd, addr, "Byte", "SignExtendByte")
        [] operation = "Lh" -> AssignLoaded(c, rd, addr, "Half", "SignExtendHalf")
        [] operation = "Lw" -> AssignLoaded(c, rd, addr, "Word", "ZeroExtend")
        [] operation = "Ori" -> Assign(c, rd, Or32(regs[rs1], imm))
        [] operation = "Slli" -> Assign(c, rd, Shl32(regs[rs1], shamt))
        [] operation = "Slti" -> Assign(c, rd, FromBool(LtS(regs[rs1], imm)))
        [] operation = "Sltiu" -> Assign(c, rd, FromBool(LtU(regs[rs1], imm)))
        [] operation = "Srai" -> Assign(c, rd, Sar32(regs[rs1], shamt))
        [] operation = "Srli" -> Assign(c, rd, Shr32(regs[rs1], shamt))
        [] operation = "Xori" -> Assign(c, rd, Xor32(regs[rs1], imm))
        [] operation = "Lbu" -> AssignLoaded(c, rd, addr, "Byte", "ZeroExtend")
        [] operation = "Lhu" -> AssignLoaded(c, rd, addr, "Half", "ZeroExtend")
        \* unimplemented!()
        [] operation = "Fence" -> Panic(c)
        [] operation = "FenceI" -> Panic(c)
        [] operation = "Ecall" -> process_ecall(c, env, overflow_checks)
        [] operation = "Ebreak" -> Ok([c EXCEPT !.debug = TRUE])

\* `regs[rd] = checked(...).ok_or_else(..)? as u32`
AssignChecked(c, rd, checked) ==
  IF checked.none THEN Err(c, "DivisionByZero") ELSE Assign(c, rd, checked.val)

execute_rtype_instruction(c, operation, rd, rs1, rs2) ==
  LET regs == c.registers
      a == regs[rs1]
      b == regs[rs2]
      shamt == Lo(And32(b, W(0, 31)))
  IN  CASE operation = "Add" -> Assign(c, rd, wrapping_add(a, b))
        [] operation = "And" -> Assign(c, rd, And32(a, b))
        [] operation = "Or" -> Assign(c, rd, Or32(a, b))
        [] operation = "Sll" -> Assign(c, rd, Shl32(a, shamt))
        [] operation = "Slt" -> Assign(c, rd, FromBool(LtS(a, b)))
        [] operation = "Sltu" -> Assign(c, rd, FromBool(LtU(a, b)))
        [] operation = "Sra" -> Assign(c, rd, Sar32(a, shamt))
        [] operation = "Srl" -> Assign(c, rd, Shr32(a, shamt))
        [] operation = "Sub" -> Assign(c, rd, wrapping_sub(a, b))
        [] operation = "Xor" -> Assign(c, rd, Xor32(a, b))
        [] operation = "Mul" -> Assign(c, rd, wrapping_mul(a, b))
        [] operation = "Mulh" ->
             Assign(c, rd, High32(MulBytes(Bytes64(a, TRUE), Bytes64(b, TRUE), 0, 0)))
        [] operation = "Mulhu" ->
             Assign(c, rd, High32(MulBytes(Bytes64(a, FALSE), Bytes64(b, FALSE), 0, 0)))
        [] operation = "Mulhsu" ->
             Assign(c, rd, High32(MulBytes(Bytes64(a, TRUE), Bytes64(b, FALSE), 0, 0)))
        [] operation = "Div" -> AssignChecked(c, rd, i32_checked_div(a, b))
        [] operation = "Divu" -> AssignChecked(c, rd, u32_checked_div(a, b))
        [] operation = "Rem" -> AssignChecked(c, rd, i32_checked_rem(a, b))
        [] operation = "Remu" -> AssignChecked(c, rd, u32_checked_rem(a, b))

\* what execute_stype_instruction returns when memory.write returned r
Stored(c, r) ==
  CASE r.res = "err" -> Err(c, "Bus")
    [] r.res = "panic" -> Panic([c EXCEPT !.memory = r.bus])
    [] OTHER -> Ok([c EXCEPT !.memory = r.bus])

execute_stype_instruction(c, operation, rs1, rs2, offset) ==
  LET regs == c.registers
      size == CASE operation = "Sb" -> "Byte" [] operation = "Sh" -> "Half"
                [] operation = "Sw" -> "Word"
  IN  Stored(c, MemoryBus_write(c.memory, wrapping_add(regs[rs1], offset),
                                regs[rs2], size))

\* the predicate of each branch
BranchTaken(operation, a, b) ==
  CASE operation = "Beq" -> a = b
    [] operation = "Bge" -> ~LtS(a, b)
    [] operation = "Blt" -> LtS(a, b)
    [] operation = "Bne" -> a # b
    [] operation = "Bltu" -> LtU(a, b)
    [] operation = "Bgeu" -> ~LtU(a, b)

\* a taken branch leaves pc + (offset - 4): execute adds the 4 back
execute_sbtype_instruction(c, operation, rs1, rs2, offset) ==
  IF BranchTaken(operation, c.registers[rs1], c.registers[rs2])
  THEN [c EXCEPT !.pc = wrapping_add(c.pc, wrapping_sub(offset, W(0, 4)))]
  ELSE c

\* the offset execute_ujtype_instruction adds to pc: ((offset as i32) << 12) >> 12
JalOffset(offset) == Sar32(Shl32(offset, 12), 12)

execute_ujtype_instruction(c, operation, rd, offset, overflow_checks) ==
  LET t == checked_add(c.pc, W(0, 4), overflow_checks)
      linked == IF rd # 0 THEN Assign(c, rd, t.val) ELSE Ok(c)
  IN  IF rd # 0 /\ t.panic THEN Panic(c)
      ELSE Ok([linked.cpu EXCEPT !.pc = wrapping_add(c.pc, JalOffset(offset))])

\* mutation of execute_utype_instruction: auipc relative to the next instruction
execute_utype_instruction_next(c, operation, rd, imm) ==
  CASE operation = "Lui" -> Assign(c, rd, Shl32(imm, 12))
    [] operation = "Auipc" ->
         Assign(c, rd, wrapping_add(wrapping_add(c.pc, W(0, 4)), Shl32(imm, 12)))

execute_utype_instruction(c, operation, rd, imm) ==
  CASE operation = "Lui" -> Assign(c, rd, Shl32(imm, 12))
    [] operation = "Auipc" -> Assign(c, rd, wrapping_add(c.pc, Shl32(imm, 12)))

\* the closing `self.pc += 4` of execute
AdvancePc(c, overflow_checks) ==
  LET s == checked_add(c.pc, W(0, 4), overflow_checks)
  IN  IF s.panic THEN Panic(c) ELSE Ok([c EXCEPT !.pc = s.val])

\* mutation of Executed: the arm returns without `self.pc += 4`
Executed_in_place(r, operation, overflow_checks) == r

\* after an arm of execute whose function returned r: `?`, the early
\* return of jalr, and otherwise `self.pc += 4`
Executed(r, operation, overflow_checks) ==
  IF r.res # "ok" \/ operation = "Jalr" THEN r ELSE AdvancePc(r.cpu, overflow_checks)

\* Execute32BitInstruction for Cpu32Bit::execute
execute(c, instruction, env, overflow_checks) ==
  LET i == instruction
  IN  CASE i.type = "IType" ->
             Executed(execute_itype_instruction(c, i.operation, i.rd, i.rs1, i.imm,
                                                env, overflow_checks),
                      i.operation, overflow_checks)
        [] i.type = "RType" ->
             Executed(execute_rtype_instruction(c, i.operation, i.rd, i.rs1, i.rs2),
                      i.operation, overflow_checks)
        [] i.type = "SType" ->
             Executed(execute_stype_instruction(c, i.operation, i.rs1, i.rs2, i.imm),
                      i.operation, overflow_checks)
        [] i.type = "SBType" ->
             AdvancePc(execute_sbtype_instruction(c, i.operation, i.rs1, i.rs2, i.imm),
                       overflow_checks)
        [] i.type = "UJType" ->
             execute_ujtype_instruction(c, i.operation, i.rd, i.imm, overflow_checks)
        [] i.type = "UType" ->
             Executed(execute_utype_instruction(c, i.operation, i.rd, i.imm),
                      i.operation, overflow_checks)

----------------------------------------------------------------------------
(* Fetch (emulator/fetch.rs) *)

\* from_machine_code returned d
DecodedWord(d) ==
  IF d.ok THEN [res |-> "ok", err |-> "", instr |-> d.instr]
  ELSE [res |-> "err", err |-> "Decode"]

\* self.read(pc, Size::Word) returned r: `?`, then the decoder
FetchedWord(r) ==
  CASE r.res = "err" -> [res |-> "err", err |-> "Bus"]
    [] r.res = "panic" -> [res |-> "panic", err |-> ""]
    [] OTHER -> DecodedWord(from_machine_code(r.val))

\* Fetch32BitInstruction for MemoryBus::fetch_and_decode:
\* [res, instr] with res "ok", "err" or "panic"
fetch_and_decode(bus, pc_) ==
  IF ~LtU(wrapping_sub(pc_, entrypoint(bus)), code_size(bus))
  THEN [res |-> "err", err |-> "PcOutOfBounds"]
  ELSE FetchedWord(MemoryBus_read(bus, pc_, "Word"))

----------------------------------------------------------------------------
(* The CPU (emulator/cpu/mod.rs) *)

None == [some |-> FALSE, val |-> Zero32]

Some(v) == [some |-> TRUE, val |-> v]

\* a constructor that leaves ra at zero
Cpu32Bit_new_ra_zero(text, data, entry, gp) ==
  LET fresh == RegisterFile32Bit_new
      sp == index_mut(fresh, Sp, STACK_CEILING).registers
      regs == IF gp.some THEN index_mut(sp, Gp, gp.val).registers ELSE sp
  IN  [registers |-> regs, pc |-> entry, memory |-> MemoryBus_new(entry, text, data),
       debug |-> FALSE, output |-> <<>>, stdout |-> <<>>]

\* Cpu32Bit::new, with the stdout of the process still empty
Cpu32Bit_new(text, data, entry, gp) ==
  LET fresh == RegisterFile32Bit_new
      sp == index_mut(fresh, Sp, STACK_CEILING).registers
      ra == index_mut(sp, Ra, entry).registers
      regs == IF gp.some THEN index_mut(ra, Gp, gp.val).registers ELSE ra
  IN  [registers |-> regs, pc |-> entry, memory |-> MemoryBus_new(entry, text, data),
       debug |-> FALSE, output |-> <<>>, stdout |-> <<>>]

\* From<&str> for DebuggerCommand, on the line as read
DebuggerCommand_from(line) ==
  LET s == trim(line)
  IN  CASE s = <<99>> -> "ContinueToNextBreakpoint"
        [] s = <<115>> \/ s = <<>> -> "StepToNextInstruction"
        [] s = <<113>> -> "ExitProgram"
        [] OTHER -> "Unknown"

\* debugger::clear_screen and debugger::print_screen write a screen whose
\* text is not modelled: each is one mark in stdout
ClearScreenMark == 256

PrintScreenMark == 257

\* "Program Output:\n{output}\n" "\n" screen "\n" written when the debugger engages
DebuggerBanner(c) ==
  <<ClearScreenMark>>
  \o <<80, 114, 111, 103, 114, 97, 109, 32, 79, 117, 116, 112, 117, 116, 58, 10>>
  \o c.output \o <<10, 10, PrintScreenMark, 10>>

\* a debugger that reads the next line without drawing anything
UnknownCommandText_silent(line) == <<>>

\* "Unknown command: {}\n" after the screen is drawn again
UnknownCommandText(line) ==
  <<ClearScreenMark, PrintScreenMark>>
  \o <<85, 110, 107, 110, 111, 119, 110, 32, 99, 111, 109, 109, 97, 110, 100, 58, 32>>
  \o trim(line) \o <<10>>

----------------------------------------------------------------------------
(* Machine code of the programs the model loads.  The layouts are those    *)
(* from_machine_code takes apart.                                          *)

RECURSIVE Pack(_)
\* the OR of the fields <<value, shift>>
Pack(fields) ==
  IF fields = <<>> THEN Zero32
  ELSE Or32(Shl32(FromInt(Head(fields)[1]), Head(fields)[2]), Pack(Tail(fields)))

\* bits hi..lo of the two's complement pattern of the integer i
Bits(i, hi, lo) == Lo(And32(Shr32(I32ToWord(i), lo), FromInt(2^(hi - lo + 1) - 1)))

EncR(funct7, rs2, rs1, funct3, rd, opcode) ==
  Pack(<<<<funct7, 25>>, <<rs2, 20>>, <<rs1, 15>>, <<funct3, 12>>, <<rd, 7>>,
         <<opcode, 0>>>>)

EncI(imm, rs1, funct3, rd, opcode) ==
  Pack(<<<<Bits(imm, 11, 0), 20>>, <<rs1, 15>>, <<funct3, 12>>, <<rd, 7>>,
         <<opcode, 0>>>>)

EncS(imm, rs2, rs1, funct3, opcode) ==
  Pack(<<<<Bits(imm, 11, 5), 25>>, <<rs2, 20>>, <<rs1, 15>>, <<funct3, 12>>,
         <<Bits(imm, 4, 0), 7>>, <<opcode, 0>>>>)

EncB(imm, rs2, rs1, funct3, opcode) ==
  Pack(<<<<Bits(imm, 12, 12), 31>>, <<Bits(imm, 10, 5), 25>>, <<rs2, 20>>,
         <<rs1, 15>>, <<funct3, 12>>, <<Bits(imm, 4, 1), 8>>,
         <<Bits(imm, 11, 11), 7>>, <<opcode, 0>>>>)

\* imm20 is the upper-immediate field as a word
EncU(imm20, rd, opcode) == Or32(Shl32(imm20, 12), Pack(<<<<rd, 7>>, <<opcode, 0>>>>))

EncJ(imm, rd, opcode) ==
  Pack(<<<<Bits(imm, 20, 20), 31>>, <<Bits(imm, 10, 1), 21>>,
         <<Bits(imm, 11, 11), 20>>, <<Bits(imm, 19, 12), 12>>, <<rd, 7>>,
         <<opcode, 0>>>>)

\* the little-endian bytes of a sequence of instruction words
RECURSIVE CodeBytes(_)
CodeBytes(words) ==
  IF words = <<>> THEN <<>>
  ELSE LET w == Head(words)
       IN  <<Lo(w) % 256, Lo(w) \div 256, Hi(w) % 256, Hi(w) \div 256>>
           \o CodeBytes(Tail(words))

----------------------------------------------------------------------------
(* The loaded programs.  Registers: x5, x6 operands, x7 results.           *)

ADDI(rd, rs1, imm) == EncI(imm, rs1, 0, rd, 19)

LUI(rd, imm20) == EncU(imm20, rd, 55)

AUIPC(rd, imm20) == EncU(imm20, rd, 23)

JAL(rd, imm) == EncJ(imm, rd, 111)

JALR(rd, rs1, imm) == EncI(imm, rs1, 0, rd, 103)

ECALL == EncI(0, 0, 0, 0, 115)

EBREAK == EncI(1, 0, 0, 0, 115)

FENCE == EncI(0, 0, 0, 0, 15)

FENCE_I == EncI(0, 0, 1, 0, 15)

\* funct3 of lb, lh, lw, lbu, lhu and of sb, sh, sw
LoadFunct3 == {0, 1, 2, 4, 5}

StoreFunct3 == {0, 1, 2}

LOAD(funct3, rd, rs1, imm) == EncI(imm, rs1, funct3, rd, 3)

STORE(funct3, rs2, rs1, imm) == EncS(imm, rs2, rs1, funct3, 35)

BRANCH(funct3, rs1, rs2, imm) == EncB(imm, rs2, rs1, funct3, 99)

\* <<funct7, funct3>> of the 18 R-type operations
RTypeFunct ==
  {<<0, f>> : f \in 0 .. 7} \cup {<<32, 0>>, <<32, 5>>} \cup {<<1, f>> : f \in 0 .. 7}

\* <<funct3, imm>> of I-type arithmetic: addi, slti, sltiu, xori, ori, andi
\* with a negative and a positive immediate, slli, srli, srai by 3
ITypeFunct ==
  {<<f, i>> : f \in {0, 2, 3, 4, 6, 7}, i \in {-1, 5}}
    \cup {<<1, 3>>, <<5, 3>>, <<5, 1024 + 3>>}

\* x5 := -1, 1, 0x8000_0000;  x6 := -1, 0, 1, 0x8000_0000
Setup5 == {ADDI(5, 0, -1), ADDI(5, 0, 1), LUI(5, W(8, 0))}

Setup6 == {ADDI(6, 0, -1), ADDI(6, 0, 0), ADDI(6, 0, 1), LUI(6, W(8, 0))}

BranchOffsets == {-4096, -8, 8, 4094}

JalOffsets == {8, -4, 524286, 524288, -524288, -524290, 1048574, -1048576}

AluPrograms ==
  {<<s5, s6, EncR(f[1], 6, 5, f[2], 7, 51)>> :
      s5 \in Setup5, s6 \in Setup6, f \in RTypeFunct}
    \cup {<<s5, EncI(f[2], 5, f[1], 7, 19)>> : s5 \in Setup5, f \in ITypeFunct}

BranchPrograms ==
  {<<s5, s6, BRANCH(f, 5, 6, imm)>> :
      s5 \in Setup5 \ {LUI(5, W(8, 0))}, s6 \in Setup6 \ {ADDI(6, 0, 0)},
      f \in {0, 1, 4, 5, 6, 7}, imm \in BranchOffsets}

JumpPrograms ==
  {<<JAL(rd, imm)>> : rd \in {0, 1}, imm \in JalOffsets}
    \cup {<<ADDI(5, 0, 1), JAL(1, imm)>> : imm \in JalOffsets}
    \cup {<<JALR(rd, 1, imm)>> : rd \in {0, 1, 7}, imm \in {4, 5, -4}}
    \cup {<<ADDI(5, 0, -1), JALR(rd, 5, imm)>> : rd \in {0, 5, 7}, imm \in {1, 9, -2048}}

\* x6 := 0x80C3_A5F1, stored below the stack pointer and loaded back
StackPrograms ==
  {<<LUI(6, W(8, 3130)), ADDI(6, 6, 1521), STORE(st[1], 6, 2, st[2]),
     LOAD(f, 7, 2, off)>> :
      st \in {<<2, -4>>, <<1, -2>>, <<0, -1>>, <<2, -3>>},
      f \in LoadFunct3, off \in {-4, -2, -1}}

\* the word of the upper immediate that makes lui give entry + pages * 4096
Page(entry, pages) == wrapping_add(Shr32(entry, 12), FromInt(pages))

\* loads and stores around the ends of the two regions; x5 := 0x8000_0000,
\* entry, or entry + 0x1000 (8 bytes below the DRAM base of these programs)
EdgePrograms(entry) ==
  {<<LUI(5, W(8, 0)), LOAD(f, 7, 5, off)>> : f \in LoadFunct3, off \in -4 .. 1}
    \cup {<<LUI(5, W(8, 0)), STORE(f, 2, 5, off)>> : f \in StoreFunct3, off \in -4 .. 1}
    \cup {<<LUI(5, Page(entry, 0)), LOAD(f, 7, 5, off)>> :
            f \in LoadFunct3, off \in {-1, 0, 4, 8, 10, 11, 12, 13}}
    \cup {<<LUI(5, Page(entry, 0)), STORE(f, 2, 5, off)>> :
            f \in StoreFunct3, off \in {-1, 0, 8, 10, 12, 13}}
    \cup {<<LUI(5, Page(entry, 1)), LOAD(f, 7, 5, off)>> :
            f \in LoadFunct3, off \in {4, 7, 8, 9, 10, 12}}
    \cup {<<LUI(5, Page(entry, 1)), STORE(f, 2, 5, off)>> :
            f \in StoreFunct3, off \in {7, 8, 9}}
    \cup {<<ADDI(5, 0, -1), LOAD(f, 7, 5, off)>> : f \in LoadFunct3, off \in {1, 5}}

\* a7 := number, then ecall; read_string into the text and into the stack
SyscallPrograms(entry) ==
  {<<ECALL>>}
    \cup {<<ADDI(A7, 0, n), ECALL>> :
            n \in {1, 2, 4, 5, 8, 10, 11, 12, 30, 32, 34, 35, 36, 93}}
    \cup {<<ADDI(A7, 0, 8), ADDI(A1, 0, n), LUI(A0, Page(entry, 0)), ECALL>> :
            n \in {0, 1, 4}}
    \cup {<<ADDI(A7, 0, 8), ADDI(A1, 0, n), ADDI(A0, Sp, -8), ECALL>> : n \in {0, 1, 3}}
    \cup {<<ADDI(A0, 0, v), ADDI(A7, 0, n), ECALL, ADDI(5, 0, 1)>> :
            v \in {-1, 65}, n \in {1, 2, 10, 11, 34, 35, 36, 93}}
    \cup {<<ADDI(A0, 0, 65), ADDI(A7, 0, 1), ECALL, ADDI(A7, 0, n), ECALL>> :
            n \in {11, 34, 36}}
    \cup {<<ADDI(A7, 0, -1), ECALL>>, <<LUI(A7, W(0, 16)), ADDI(A7, A7, 1), ECALL>>}
    \cup {<<LUI(A0, W(8, 0)), ADDI(A0, A0, -4), STORE(2, A0, A0, 0), ADDI(A7, 0, 4),
            ECALL>>}

\* writes to x0, div and remu by x0 into x0, upper immediates, ebreak, fence,
\* words that are no instruction, the empty program, and the words 0x0A867693
\* and 0x00A67693 (the one of test_andi) run with x12 = 0xFE
OtherPrograms ==
  {<<ADDI(0, 0, 0)>>, <<ADDI(0, 0, 1)>>, <<LUI(0, W(0, 1))>>,
   <<EncR(0, 6, 5, 0, 0, 51)>>, <<LOAD(2, 0, Sp, -4)>>,
   <<EncR(1, 0, 5, 4, 0, 51)>>, <<EncR(1, 0, 5, 7, 0, 51)>>,
   <<EBREAK, ADDI(5, 0, 1)>>, <<ADDI(5, 0, 1), EBREAK>>, <<FENCE>>, <<FENCE_I>>,
   <<W(65535, 65535)>>, <<>>,
   <<ADDI(12, 0, 254), W(2694, 30355)>>, <<ADDI(12, 0, 254), W(166, 30355)>>}
    \cup {<<ADDI(5, 0, 1), u>> :
            u \in {LUI(7, W(0, 1)), LUI(7, W(8, 0)), LUI(7, W(15, 65535)),
                   AUIPC(7, W(0, 1)), AUIPC(7, W(8, 0)), AUIPC(7, W(15, 65535))}}

\* jumps to entry + 6.  The words W(659, 19) and W(0, 16) hold
\* `addi x5, x0, 1` across their halves, so that it is the word at entry + 6;
\* the shorter programs leave a word that is no instruction, or no word, there
MisalignedPrograms ==
  {<<j>> \o rest :
      j \in {JAL(0, 6), JALR(0, Ra, 6), BRANCH(0, 0, 0, 6)},
      rest \in {<<W(659, 19), W(0, 16)>>, <<ADDI(5, 0, 1)>>, <<>>}}

\* mul, mulh, mulhsu, mulhu, sll, srl, sra on x5 = 0x80C3_A5F1 and
\* x6 = -123 or 0x7654_3210, in both operand orders
MulShiftPrograms ==
  {<<LUI(5, W(8, 3130)), ADDI(5, 5, 1521)>> \o s6 \o <<EncR(f[1], r[2], r[1], f[2], 7, 51)>> :
      s6 \in {<<ADDI(6, 0, -123)>>, <<LUI(6, W(7, 25923)), ADDI(6, 6, 528)>>},
      f \in {<<1, 0>>, <<1, 1>>, <<1, 2>>, <<1, 3>>, <<0, 1>>, <<0, 5>>, <<32, 5>>},
      r \in {<<5, 6>>, <<6, 5>>}}

----------------------------------------------------------------------------
(* The emulator process: main's driver loop around Cpu32Bit::step *)

VARIABLES
  registers, pc, memory, debug, output,  \* the fields of Cpu32Bit
  stdout,           \* what the process has written to its standard output
  overflow_checks,  \* whether the build panics on arithmetic overflow
  loaded,           \* the ELF contents main handed to Cpu32Bit::new
  status,           \* "running", "stopped" (the loop broke on an Err), "panicked"
  pos,              \* "loop", or "debugger" while step waits for a command
  instruction,      \* the instruction step has fetched and not yet executed
  result,           \* what the last finished call of step returned
  prev,             \* the CPU as the last call of step found it
  steps,            \* calls of step so far
  reads,            \* lines the debugger found unknown so far
  access,           \* the last access made directly on the bus
  accesses          \* accesses made directly on the bus so far

vars ==
  <<registers, pc, memory, debug, output, stdout, overflow_checks, loaded, status,
    pos, instruction, result, prev, steps, reads, access, accesses>>

MaxSteps == 5

MaxReads == 2

MaxAccesses == 2

Entries == {Zero32, W(64, 0)}

DataImages == {<<>>, <<128, 255, 127, 1, 241, 165>>}

GlobalPointers == {None, Some(W(4660, 22136))}

NoInstruction == [type |-> "None"]

NoAccess == [op |-> "none"]

\* what the host hands to a step that asks for it
QuietEnv == [stdin_ok |-> TRUE, stdin |-> <<>>, time |-> <<Zero32, Zero32>>]

StdinLines == {<<>>, <<10>>, <<52, 50, 10>>, <<45, 49, 10>>, <<104, 105, 10>>, <<120>>}

Times == {<<W(0, 397), W(43981, 4660)>>, <<Zero32, W(0, 1)>>}

HostInputs(c, instr) ==
  LET syscall == Syscall_from(c.registers[A7])
  IN  IF instr.type = "IType" /\ instr.operation = "Ecall"
      THEN CASE syscall \in {"ReadInt", "ReadString", "ReadChar"} ->
                  {[QuietEnv EXCEPT !.stdin = line] : line \in StdinLines}
                    \cup {[QuietEnv EXCEPT !.stdin_ok = FALSE]}
             [] syscall = "Time" -> {[QuietEnv EXCEPT !.time = t] : t \in Times}
             [] OTHER -> {QuietEnv}
      ELSE {QuietEnv}

\* the lines the debugger may read: c, s, the empty line, q, x, end of input
DebuggerLines == {<<99, 10>>, <<115, 10>>, <<10>>, <<113, 10>>, <<120, 10>>, <<>>}

cpu ==
  [registers |-> registers, pc |-> pc, memory |-> memory, debug |-> debug,
   output |-> output, stdout |-> stdout]

SetCpu(c) ==
  /\ registers' = c.registers
  /\ pc' = c.pc
  /\ memory' = c.memory
  /\ debug' = c.debug
  /\ output' = c.output
  /\ stdout' = c.stdout

\* the programs main is run on: what the ELF file holds and the -d flag
Configs ==
  UNION {
    [entry : {e},
     program : AluPrograms \cup BranchPrograms \cup JumpPrograms \cup StackPrograms
                 \cup MisalignedPrograms \cup MulShiftPrograms,
     data : {<<>>}, gp : {None}, debug : {FALSE}]
    \cup [entry : {e}, program : EdgePrograms(e), data : DataImages, gp : {None},
          debug : {FALSE}]
    \cup [entry : {e}, program : SyscallPrograms(e) \cup OtherPrograms,
          data : DataImages \ {<<>>}, gp : GlobalPointers, debug : BOOLEAN]
    : e \in Entries}

\* the process once Cpu32Bit::new has returned c
Constructed(cfg, checks, c) ==
  /\ registers = c.registers
  /\ pc = c.pc
  /\ memory = c.memory
  /\ debug = cfg.debug
  /\ output = c.output
  /\ stdout = c.stdout
  /\ overflow_checks = checks
  /\ loaded = cfg
  /\ pos = "loop"
  /\ instruction = NoInstruction
  /\ result = [res |-> "none", err |-> "", code |-> Zero32]
  /\ prev = [cpu |-> c, instr |-> NoInstruction, executed |-> FALSE, env |-> QuietEnv]
  /\ steps = 0
  /\ reads = 0
  /\ access = NoAccess
  /\ accesses = 0

\* main, up to the driver loop
Init ==
  \E cfg \in Configs, checks \in BOOLEAN :
    /\ Constructed(cfg, checks,
                   Cpu32Bit_new(CodeBytes(cfg.program), cfg.data, cfg.entry, cfg.gp))
    /\ status = "running"

\* a driver loop that goes on after an Err
Return_running(r) ==
  /\ SetCpu(r.cpu)
  /\ result' = [res |-> r.res, err |-> r.err, code |-> r.code]
  /\ status' = IF r.res = "panic" THEN "panicked" ELSE "running"
  /\ pos' = "loop"
  /\ instruction' = NoInstruction

\* step returns r and the driver loop goes on or breaks
Return(r) ==
  /\ SetCpu(r.cpu)
  /\ result' = [res |-> r.res, err |-> r.err, code |-> r.code]
  /\ status' = CASE r.res = "ok" -> "running"
                 [] r.res = "err" -> "stopped"
                 [] OTHER -> "panicked"
  /\ pos' = "loop"
  /\ instruction' = NoInstruction

\* a step that engages the debugger whatever the debug flag says
Fetched_always_engaged(f) ==
  CASE f.res = "err" ->
         /\ Return(Err(cpu, f.err))
         /\ prev' = [cpu |-> cpu, instr |-> NoInstruction, executed |-> FALSE,
                     env |-> QuietEnv]
    [] f.res = "panic" ->
         /\ Return(Panic(cpu))
         /\ prev' = [cpu |-> cpu, instr |-> NoInstruction, executed |-> FALSE,
                     env |-> QuietEnv]
    [] f.res = "ok" ->
         /\ SetCpu([cpu EXCEPT !.stdout = @ \o DebuggerBanner(cpu)])
         /\ pos' = "debugger"
         /\ instruction' = f.instr
         /\ prev' = [cpu |-> cpu, instr |-> f.instr, executed |-> FALSE,
                     env |-> QuietEnv]
         /\ UNCHANGED <<result, status>>
    [] OTHER ->
         \E env \in HostInputs(cpu, f.instr) :
           /\ Return(execute(cpu, f.instr, env, overflow_checks))
           /\ prev' = [cpu |-> cpu, instr |-> f.instr, executed |-> TRUE, env |-> env]

\* step after fetch_and_decode returned f
Fetched(f) ==
  CASE f.res = "err" ->
         /\ Return(Err(cpu, f.err))
         /\ prev' = [cpu |-> cpu, instr |-> NoInstruction, executed |-> FALSE,
                     env |-> QuietEnv]
    [] f.res = "panic" ->
         /\ Return(Panic(cpu))
         /\ prev' = [cpu |-> cpu, instr |-> NoInstruction, executed |-> FALSE,
                     env |-> QuietEnv]
    [] f.res = "ok" /\ debug ->
         /\ SetCpu([cpu EXCEPT !.stdout = @ \o DebuggerBanner(cpu)])
         /\ pos' = "debugger"
         /\ instruction' = f.instr
         /\ prev' = [cpu |-> cpu, instr |-> f.instr, executed |-> FALSE,
                     env |-> QuietEnv]
         /\ UNCHANGED <<result, status>>
    [] OTHER ->
         \E env \in HostInputs(cpu, f.instr) :
           /\ Return(execute(cpu, f.instr, env, overflow_checks))
           /\ prev' = [cpu |-> cpu, instr |-> f.instr, executed |-> TRUE, env |-> env]

\* Cpu32Bit::step from its start: to the end when the debugger is off, to
\* the first read of a command when it is on
Step ==
  /\ status = "running" /\ pos = "loop" /\ steps < MaxSteps
  /\ steps' = steps + 1
  /\ UNCHANGED <<overflow_checks, loaded, reads, access, accesses>>
  /\ Fetched(fetch_and_decode(memory, pc))

\* one turn of the debugger loop of step: a line is read and obeyed
Debugger ==
  /\ status = "running" /\ pos = "debugger"
  /\ UNCHANGED <<overflow_checks, loaded, steps, access, accesses>>
  /\ \/ \* read_line fails
        /\ Return(Err(cpu, "Io"))
        /\ UNCHANGED <<prev, reads>>
     \/ \E line \in DebuggerLines :
          LET command == DebuggerCommand_from(line)
              shown == [cpu EXCEPT !.stdout = @ \o output \o <<10>>]
              resumed == IF command = "ContinueToNextBreakpoint"
                         THEN [shown EXCEPT !.debug = FALSE] ELSE shown
          IN  CASE command = "ExitProgram" ->
                     /\ Return(Err(cpu, "UserQuit"))
                     /\ UNCHANGED <<prev, reads>>
                [] command = "Unknown" ->
                     /\ reads < MaxReads
                     /\ reads' = reads + 1
                     /\ stdout' = stdout \o UnknownCommandText(line)
                     /\ UNCHANGED <<registers, pc, memory, debug, output, status, pos,
                                    instruction, result, prev>>
                [] OTHER ->
                     \E env \in HostInputs(resumed, instruction) :
                       /\ Return(execute(resumed, instruction, env, overflow_checks))
                       /\ prev' = [prev EXCEPT !.executed = TRUE, !.env = env]
                       /\ UNCHANGED reads

Next == Step \/ Debugger

Spec == Init /\ [][Next]_vars

\* the exit status of the process once the driver loop is over: main
\* returns Ok(()) after the break whatever the error was, and a panic ends
\* the process with status 101
main_exit_code == IF status = "panicked" THEN 101 ELSE 0

----------------------------------------------------------------------------
(* The memory bus on its own: MemoryBus::new, then reads and writes made   *)
(* by a caller that holds the bus.                                         *)

\* the addresses at and around the ends of the two regions
BusAddresses(bus) ==
  {wrapping_add(entrypoint(bus), d) : d \in {Not32(Zero32), Zero32}}
    \cup {wrapping_add(wrapping_add(entrypoint(bus), code_size(bus)), d) :
            d \in {Not32(W(0, 1)), Zero32}}
    \cup {wrapping_add(dram_start(bus), d) : d \in {Not32(Zero32), Zero32, W(0, 1)}}
    \cup {wrapping_add(DRAM_END, d) :
            d \in {Not32(W(0, 3)), Not32(W(0, 1)), Zero32, W(0, 1)}}
    \cup {STACK_CEILING}

BusValues == {W(32963, 42481), W(258, 128)}

BusConfigs ==
  [entry : Entries, program : {<<ADDI(5, 0, 1)>>}, data : DataImages, gp : {None},
   debug : {FALSE}]

InitBus ==
  \E cfg \in BusConfigs :
    /\ Constructed(cfg, TRUE,
                   Cpu32Bit_new(CodeBytes(cfg.program), cfg.data, cfg.entry, cfg.gp))
    /\ status = "bus"

\* the caller goes on unless the access panicked
Accessed(r) ==
  /\ status' = IF r.res = "panic" THEN "panicked" ELSE "bus"
  /\ accesses' = accesses + 1
  /\ UNCHANGED <<registers, pc, debug, output, stdout, overflow_checks, loaded, pos,
                 instruction, result, prev, steps, reads>>

\* MemoryBus::read returned r
ReadReturned(r, addr, size) ==
  /\ access' = [op |-> "read", addr |-> addr, size |-> size, value |-> Zero32,
                res |-> r.res, val |-> r.val, before |-> memory]
  /\ UNCHANGED memory
  /\ Accessed(r)

\* MemoryBus::write returned r
WriteReturned(r, addr, value, size) ==
  /\ access' = [op |-> "write", addr |-> addr, size |-> size, value |-> value,
                res |-> r.res, val |-> Zero32, before |-> memory]
  /\ memory' = r.bus
  /\ Accessed(r)

BusRead ==
  /\ status = "bus" /\ accesses < MaxAccesses
  /\ \E addr \in BusAddresses(memory), size \in Size :
       ReadReturned(MemoryBus_read(memory, addr, size), addr, size)

BusWrite ==
  /\ status = "bus" /\ accesses < MaxAccesses
  /\ \E addr \in BusAddresses(memory), value \in BusValues, size \in Size :
       WriteReturned(MemoryBus_write(memory, addr, value, size), addr, value, size)

NextBus == BusRead \/ BusWrite

SpecBus == InitBus /\ [][NextBus]_vars

----------------------------------------------------------------------------
(* The decoder on its own: from_machine_code called by a caller that holds *)
(* one word, which is the one-word program main loaded.                    *)

\* the word with these bit fields: [31:20], [19:15], [14:12], [11:7], [6:0]
FieldsWord(upper, rs1, funct3, rd, opcode) ==
  W(upper * 16 + rs1 \div 2,
    (rs1 % 2) * 32768 + funct3 * 4096 + rd * 128 + opcode)

\* the opcodes of the match arms, and some that have no arm
DecodeOpcodes == {3, 15, 19, 23, 27, 35, 51, 55, 59, 99, 103, 111, 115, 0, 7, 47, 83, 127}

\* bits 31:20: funct7 0, 1, 2, 32 and 127 with a few rs2, which are also the
\* immediates 0, 1, 31, 32, 2047, 2048 and 4095 and shifts by 0, 1 and 31
DecodeUppers == {0, 1, 31, 32, 33, 63, 64, 1024, 1025, 1055, 2047, 2048, 4095}

DecodeRegisters == {0, 10, 21, 31}

DecodeWords ==
  {FieldsWord(upper, rs1, funct3, rd, opcode) :
     upper \in DecodeUppers, rs1 \in DecodeRegisters \ {21}, funct3 \in 0 .. 7,
     rd \in DecodeRegisters \ {10}, opcode \in DecodeOpcodes}

\* the caller holds the word
InitDecode ==
  \E word \in DecodeWords :
    LET cfg == [entry |-> Zero32, program |-> <<word>>, data |-> <<>>, gp |-> None,
                debug |-> FALSE]
    IN  /\ Constructed(cfg, TRUE,
                       Cpu32Bit_new(CodeBytes(cfg.program), cfg.data, cfg.entry, cfg.gp))
        /\ status = "decoder"

\* the results of the calls made so far
Decodings == IF access.op = "decode" THEN access.results ELSE <<>>

\* one call of from_machine_code on the word
Decode ==
  /\ status = "decoder" /\ accesses < MaxAccesses
  /\ access' = [op |-> "decode",
                results |-> Append(Decodings, from_machine_code(loaded.program[1]))]
  /\ accesses' = accesses + 1
  /\ UNCHANGED <<registers, pc, memory, debug, output, stdout, overflow_checks,
                 loaded, status, pos, instruction, result, prev, steps, reads>>

NextDecode == Decode

SpecDecode == InitDecode /\ [][NextDecode]_vars

----------------------------------------------------------------------------
(* Properties.  `prev` holds the CPU as the last call of step found it and *)
(* the instruction it handed to execute; the arithmetic below is written   *)
(* on the 16-bit halves of a word, apart from the engine's operators.      *)

\* w + 4 modulo 2^32
Plus4(w) ==
  IF Lo(w) + 4 < H THEN W(Hi(w), Lo(w) + 4) ELSE W((Hi(w) + 1) % H, Lo(w) + 4 - H)

UnsignedLess(a, b) == Hi(a) < Hi(b) \/ (Hi(a) = Hi(b) /\ Lo(a) < Lo(b))

SignedLess(a, b) ==
  UnsignedLess(W((Hi(a) + 32768) % H, Lo(a)), W((Hi(b) + 32768) % H, Lo(b)))

\* the instruction the last step executed, if it got that far
Ran(type) == prev.executed /\ prev.instr.type = type

RanIType(operations) == Ran("IType") /\ prev.instr.operation \in operations

\* C1: starting from Cpu32Bit::new, after any sequence of step calls,
\* whatever the program and also after steps that return an error,
\* register x0 reads 0.
C1_ZeroRegister == registers[0] = Zero32

\* addi x0, x0, 1 has been executed
C1_Witness == RanIType({"Addi"}) /\ prev.instr.rd = 0 /\ prev.instr.imm = W(0, 1)

Sequential(instr) ==
  \/ instr.type \in {"RType", "SType", "UType"}
  \/ instr.type = "IType" /\ instr.operation # "Jalr"

\* C2: after every successful step whose instruction is not a branch, jal
\* or jalr, the new PC is the old PC plus 4.
C2_NextInstruction ==
  (prev.executed /\ result.res = "ok" /\ Sequential(prev.instr))
    => pc = Plus4(prev.cpu.pc)

\* an ecall that read a line has returned Ok
C2_Witness ==
  /\ RanIType({"Ecall"}) /\ result.res = "ok"
  /\ prev.env.stdin # <<>>
  /\ pc = Plus4(prev.cpu.pc)

PredicateHolds(operation, a, b) ==
  CASE operation = "Beq" -> a = b
    [] operation = "Bne" -> a # b
    [] operation = "Blt" -> SignedLess(a, b)
    [] operation = "Bge" -> ~SignedLess(a, b)
    [] operation = "Bltu" -> UnsignedLess(a, b)
    [] operation = "Bgeu" -> ~UnsignedLess(a, b)

\* C3: for each of beq, bne, blt, bge, bltu, bgeu, every pair of register
\* values and every immediate: when the predicate holds the step ends with
\* PC = old PC + imm modulo 2^32, otherwise with PC = old PC + 4; no
\* register and no memory byte changes.
C3_Branch ==
  Ran("SBType") =>
    /\ result.res = "ok"
    /\ pc = IF PredicateHolds(prev.instr.operation,
                              prev.cpu.registers[prev.instr.rs1],
                              prev.cpu.registers[prev.instr.rs2])
            THEN wrapping_add(prev.cpu.pc, prev.instr.imm)
            ELSE Plus4(prev.cpu.pc)
    /\ registers = prev.cpu.registers
    /\ memory = prev.cpu.memory

\* the 21-bit immediate of jal, bit 20 its sign, as a 32-bit two's
\* complement value
SignExtend21(imm) == IF Hi(imm) >= 16 THEN W(Hi(imm) + (H - 32), Lo(imm)) ELSE imm

\* C4: for every jal encoding, offsets of magnitude 2^19 and above
\* included, the step writes old PC + 4 to rd unless rd is x0 and sets
\* PC = old PC + sign_extend_21(imm) modulo 2^32.
C4_Jal ==
  Ran("UJType") =>
    /\ result.res = "ok"
    /\ pc = wrapping_add(prev.cpu.pc, SignExtend21(prev.instr.imm))
    /\ \A r \in 0 .. 31 :
         registers[r] = IF r = prev.instr.rd /\ r # 0 THEN Plus4(prev.cpu.pc)
                        ELSE prev.cpu.registers[r]

ClearBit0(w) == W(Hi(w), Lo(w) - (Lo(w) % 2))

\* C5: jalr sets PC to (old rs1 + imm) modulo 2^32 with bit 0 cleared, from
\* the value rs1 held before the instruction also when rd = rs1, writes old
\* PC + 4 to rd unless rd is x0, and does not add 4 to the target.
C5_Jalr ==
  RanIType({"Jalr"}) =>
    /\ result.res = "ok"
    /\ pc = ClearBit0(wrapping_add(prev.cpu.registers[prev.instr.rs1], prev.instr.imm))
    /\ \A r \in 0 .. 31 :
         registers[r] = IF r = prev.instr.rd /\ r # 0 THEN Plus4(prev.cpu.pc)
                        ELSE prev.cpu.registers[r]

\* jalr with rd = rs1 and an odd sum has been executed
C5_Witness ==
  /\ RanIType({"Jalr"})
  /\ prev.instr.rd = prev.instr.rs1 /\ prev.instr.rd # 0
  /\ Lo(wrapping_add(prev.cpu.registers[prev.instr.rs1], prev.instr.imm)) % 2 = 1

\* the code image main loaded
LoadedCode == CodeBytes(loaded.program)

\* the text region holds the code image followed by four zero bytes
TextAsLoaded ==
  /\ memory.text.base = loaded.entry
  /\ memory.text.size = FromInt(Len(LoadedCode) + 4)
  /\ DOMAIN memory.text.data \subseteq {FromInt(k) : k \in 0 .. Len(LoadedCode) - 1}
  /\ \A k \in 0 .. Len(LoadedCode) - 1 :
       DataGet(memory.text.data, FromInt(k)) = LoadedCode[k + 1]

\* a lies in [entry, entry + len(code) + 4)
InTextRange(a) ==
  /\ ~UnsignedLess(a, loaded.entry)
  /\ UnsignedLess(wrapping_sub(a, loaded.entry), FromInt(Len(LoadedCode) + 4))

\* the address of the load or store the last step executed
EffectiveAddress == wrapping_add(prev.cpu.registers[prev.instr.rs1], prev.instr.imm)

\* the last step executed read_string and got as far as its first write,
\* which goes to the address in a0
ReadStringWrote ==
  /\ RanIType({"Ecall"})
  /\ prev.cpu.registers[A7] = W(0, 8)
  /\ prev.env.stdin_ok
  /\ ~(prev.env.stdin # <<>> /\ prev.cpu.registers[A1] = Zero32 /\ overflow_checks)

\* C6: the text region is never modified: after any sequence of steps every
\* byte of it equals its value right after loading, and a store (sb, sh,
\* sw, or a read_string write) whose address falls in the text range
\* returns an error without changing any memory byte.
C6_TextReadOnly ==
  /\ TextAsLoaded
  /\ (Ran("SType") /\ InTextRange(EffectiveAddress))
       => (result.res = "err" /\ memory = prev.cpu.memory)
  /\ (ReadStringWrote /\ InTextRange(prev.cpu.registers[A0]))
       => (result.res = "err" /\ memory = prev.cpu.memory)

\* sw of a non-zero word to an address inside the code image has been executed
C6_Witness ==
  /\ Ran("SType") /\ prev.instr.operation = "Sw"
  /\ InTextRange(EffectiveAddress)
  /\ prev.cpu.registers[prev.instr.rs2] # Zero32
  /\ result.res = "err"

\* b <= a and a + n <= b + s for the region's base b and size s
FitsIn(region, a, n) ==
  /\ ~UnsignedLess(a, region.base)
  /\ ~UnsignedLess(region.size, FromInt(n))
  /\ ~UnsignedLess(wrapping_sub(region.size, FromInt(n)), wrapping_sub(a, region.base))

\* C7: for each region with base b and size s, a byte, half or word read
\* or write at address a succeeds only if b <= a and a + size_of_access <=
\* b + s; every other access is reported as an error returned by the
\* operation, and leaves every memory byte unchanged.
C7_RegionBounds ==
  access.op # "none" =>
    LET n == SizeBytes(access.size)
        fits == \/ FitsIn(access.before.text, access.addr, n)
                \/ FitsIn(access.before.dram, access.addr, n)
    IN  /\ access.res = "ok" => fits
        /\ ~fits => (access.res = "err" /\ memory = access.before)

\* a lies below entry, in the gap from the end of text up to the DRAM
\* base, or above 0x8000_0000
InNoRegion(bus, a) ==
  \/ UnsignedLess(a, bus.text.base)
  \/ /\ ~UnsignedLess(a, wrapping_add(bus.text.base, bus.text.size))
     /\ UnsignedLess(a, bus.dram.base)
  \/ UnsignedLess(DRAM_END, a)

LoadOperations == {"Lb", "Lh", "Lw", "Lbu", "Lhu"}

\* C8: a bus read or write at an address that lies in neither region
\* returns an out-of-bounds error; when reached through a load or store
\* instruction the step returns that error with registers, PC and memory
\* unchanged.
C8_OutOfBounds ==
  /\ (access.op # "none" /\ InNoRegion(access.before, access.addr))
       => access.res = "err"
  /\ ((RanIType(LoadOperations) \/ Ran("SType"))
        /\ InNoRegion(prev.cpu.memory, EffectiveAddress))
       => /\ result.res = "err"
          /\ registers = prev.cpu.registers
          /\ pc = prev.cpu.pc
          /\ memory = prev.cpu.memory

\* byte k of the word v, k = 0 the lowest
ByteOf(v, k) ==
  CASE k = 0 -> Lo(v) % 256
    [] k = 1 -> Lo(v) \div 256
    [] k = 2 -> Hi(v) % 256
    [] k = 3 -> Hi(v) \div 256

\* C9: for every DRAM address a at which a word fits and every value v,
\* writing v as a word at a and then reading the bytes at a, a+1, a+2, a+3
\* yields v & 0xff, (v>>8) & 0xff, (v>>16) & 0xff, (v>>24) & 0xff, and
\* reading the word at a yields v.
C9_LittleEndian ==
  (access.op = "write" /\ access.size = "Word"
     /\ FitsIn(access.before.dram, access.addr, 4))
    => /\ access.res = "ok"
       /\ \A k \in 0 .. 3 :
            MemoryBus_read(memory, wrapping_add(access.addr, FromInt(k)), "Byte")
              = [res |-> "ok", val |-> W(0, ByteOf(access.value, k))]
       /\ MemoryBus_read(memory, access.addr, "Word")
            = [res |-> "ok", val |-> access.value]

\* 0x80C3_A5F1 has been written one byte above the DRAM base, over an
\* earlier access
C9_Witness ==
  /\ access.op = "write" /\ access.size = "Word" /\ access.res = "ok"
  /\ access.addr = wrapping_add(memory.dram.base, W(0, 1))
  /\ access.value = W(32963, 42481)
  /\ accesses = 2

\* the byte the bus holds at address a, in whichever region a lies
ByteAt(bus, a) ==
  IF FitsIn(bus.text, a, 1) THEN DataGet(bus.text.data, wrapping_sub(a, bus.text.base))
  ELSE DataGet(bus.dram.data, wrapping_sub(a, bus.dram.base))

\* the value a load of `operation` at address a places in rd
LoadValue(operation, bus, a) ==
  LET b0 == ByteAt(bus, a)
      b1 == ByteAt(bus, wrapping_add(a, W(0, 1)))
      b2 == ByteAt(bus, wrapping_add(a, W(0, 2)))
      b3 == ByteAt(bus, wrapping_add(a, W(0, 3)))
  IN  CASE operation = "Lb" -> IF b0 >= 128 THEN W(H - 1, H - 256 + b0) ELSE W(0, b0)
        [] operation = "Lbu" -> W(0, b0)
        [] operation = "Lh" -> IF b1 >= 128 THEN W(H - 1, b0 + 256 * b1)
                               ELSE W(0, b0 + 256 * b1)
        [] operation = "Lhu" -> W(0, b0 + 256 * b1)
        [] operation = "Lw" -> W(b2 + 256 * b3, b0 + 256 * b1)

\* C10: a load that completes reads from address rs1 + sign_extend(imm)
\* modulo 2^32; lb and lh place the byte or half in rd sign-extended from
\* bit 7 or bit 15, lbu and lhu zero-extended, lw the full word; memory is
\* unchanged by any load.
C10_Load ==
  RanIType(LoadOperations) =>
    /\ memory = prev.cpu.memory
    /\ result.res = "ok" =>
         \A r \in 0 .. 31 :
           registers[r] =
             IF r = prev.instr.rd
             THEN LoadValue(prev.instr.operation, prev.cpu.memory, EffectiveAddress)
             ELSE prev.cpu.registers[r]

\* lb with a negative offset has loaded a byte with bit 7 set
C10_Witness ==
  /\ RanIType({"Lb"}) /\ result.res = "ok"
  /\ IsNeg(prev.instr.imm)
  /\ ByteAt(prev.cpu.memory, EffectiveAddress) >= 128
  /\ Hi(registers[prev.instr.rd]) = H - 1

\* the number of bytes sb, sh, sw store
StoreWidth(operation) ==
  CASE operation = "Sb" -> 1 [] operation = "Sh" -> 2 [] operation = "Sw" -> 4

\* the offsets into a region's buffer of the n bytes from address a on
OffsetsFrom(region, a, n) ==
  {wrapping_add(wrapping_sub(a, region.base), FromInt(k)) : k \in 0 .. n - 1}

\* C11: a successful sb, sh or sw at address rs1 + sign_extend(imm)
\* changes exactly 1, 2 or 4 bytes of DRAM, setting them to the low 8, 16
\* or 32 bits of rs2 in little-endian order; every other memory byte and
\* every register is left unchanged.
C11_Store ==
  (Ran("SType") /\ result.res = "ok") =>
    LET n == StoreWidth(prev.instr.operation)
        old == prev.cpu.memory
        v == prev.cpu.registers[prev.instr.rs2]
        off == wrapping_sub(EffectiveAddress, old.dram.base)
        written == OffsetsFrom(old.dram, EffectiveAddress, n)
    IN  /\ registers = prev.cpu.registers
        /\ memory.text = old.text
        /\ memory.dram.base = old.dram.base
        /\ memory.dram.size = old.dram.size
        /\ FitsIn(old.dram, EffectiveAddress, n)
        /\ \A k \in 0 .. n - 1 :
             DataGet(memory.dram.data, wrapping_add(off, FromInt(k))) = ByteOf(v, k)
        /\ \A i \in (DOMAIN memory.dram.data \cup DOMAIN old.dram.data) \ written :
             DataGet(memory.dram.data, i) = DataGet(old.dram.data, i)

\* sh has stored 0xA5F1 two bytes below the stack pointer
C11_Witness ==
  /\ Ran("SType") /\ prev.instr.operation = "Sh" /\ result.res = "ok"
  /\ prev.cpu.registers[prev.instr.rs2] = W(32963, 42481)
  /\ MemoryBus_read(memory, EffectiveAddress, "Half") = [res |-> "ok", val |-> W(0, 42481)]

\* the last call of step has returned and found PC off the 4-byte grid
MisalignedStep == steps > 0 /\ pos = "loop" /\ Lo(prev.cpu.pc) % 4 # 0

\* C12: a step started with a PC that is not a multiple of 4 returns an
\* error and executes no instruction: registers, memory, PC and output are
\* unchanged.
C12_MisalignedPc ==
  MisalignedStep =>
    /\ result.res = "err"
    /\ ~prev.executed
    /\ registers = prev.cpu.registers
    /\ memory = prev.cpu.memory
    /\ pc = prev.cpu.pc
    /\ output = prev.cpu.output

\* C13: lw at an effective address that is not a multiple of 4 returns an
\* error and leaves rd, PC and memory unchanged.
C13_UnalignedLw ==
  (RanIType({"Lw"}) /\ Lo(EffectiveAddress) % 4 # 0) =>
    /\ result.res = "err"
    /\ registers[prev.instr.rd] = prev.cpu.registers[prev.instr.rd]
    /\ pc = prev.cpu.pc
    /\ memory = prev.cpu.memory

RanRType(operations) == Ran("RType") /\ prev.instr.operation \in operations

\* C14: div, divu, rem and remu with a zero value in rs2 make the step
\* return an error, and after that error rd, every other register, PC and
\* memory hold the values they had before the step.
C14_DivisionByZero ==
  (RanRType({"Div", "Divu", "Rem", "Remu"})
     /\ prev.cpu.registers[prev.instr.rs2] = Zero32)
    => /\ result.res = "err"
       /\ registers = prev.cpu.registers
       /\ pc = prev.cpu.pc
       /\ memory = prev.cpu.memory

\* divu of 0x8000_0000 by a zero held in x6 has returned its error
C14_Witness ==
  /\ RanRType({"Divu"}) /\ prev.instr.rs2 = 6
  /\ prev.cpu.registers[6] = Zero32
  /\ prev.cpu.registers[prev.instr.rs1] = W(32768, 0)
  /\ result.res = "err" /\ status = "stopped"

\* the last step executed an instruction that writes a result to rd: an
\* I-type computation, a load, an R-type operation, lui or auipc
WritesResult ==
  \/ Ran("RType")
  \/ Ran("UType")
  \/ RanIType({"Addi", "Andi", "Ori", "Xori", "Slti", "Sltiu", "Slli", "Srli", "Srai"})
  \/ RanIType(LoadOperations)

\* the instruction has a result to write: its load finds its bytes in a
\* region and its division is defined
HasResult ==
  /\ RanIType(LoadOperations) =>
       LET n == CASE prev.instr.operation \in {"Lb", "Lbu"} -> 1
                  [] prev.instr.operation \in {"Lh", "Lhu"} -> 2
                  [] OTHER -> 4
       IN  \/ FitsIn(prev.cpu.memory.text, EffectiveAddress, n)
           \/ FitsIn(prev.cpu.memory.dram, EffectiveAddress, n)
  /\ RanRType({"Div", "Divu", "Rem", "Remu"}) =>
       /\ prev.cpu.registers[prev.instr.rs2] # Zero32
       /\ ~(prev.cpu.registers[prev.instr.rs1] = W(32768, 0)
              /\ prev.cpu.registers[prev.instr.rs2] = W(65535, 65535))

\* C15: an instruction whose destination register is x0 (for instance
\* addi x0, x0, 0, or add/lui/lw with rd = x0) executes without error or
\* abort: the register write is discarded, no other register and no memory
\* byte changes, and PC advances by 4.
C15_ZeroDestination ==
  (WritesResult /\ HasResult /\ prev.instr.rd = 0) =>
    /\ result.res = "ok"
    /\ registers = prev.cpu.registers
    /\ memory = prev.cpu.memory
    /\ pc = Plus4(prev.cpu.pc)

\* C16: executing fence or fence.i succeeds and leaves registers, memory,
\* the debug flag and the output buffer unchanged; only PC changes, by +4.
\* (A step that went through the debugger may have cleared the flag before
\* the instruction ran, so the flag is compared for the other steps.)
C16_Fence ==
  RanIType({"Fence", "FenceI"}) =>
    /\ result.res = "ok"
    /\ registers = prev.cpu.registers
    /\ memory = prev.cpu.memory
    /\ output = prev.cpu.output
    /\ ~prev.cpu.debug => ~debug
    /\ pc = Plus4(prev.cpu.pc)

\* the last step executed ebreak and returned Ok to the driver loop
EbreakDone == RanIType({"Ebreak"}) /\ result.res = "ok" /\ pos = "loop"

\* what ebreak itself does
EbreakEffect ==
  RanIType({"Ebreak"}) =>
    /\ result.res = "ok"
    /\ debug
    /\ pc = Plus4(prev.cpu.pc)
    /\ registers = prev.cpu.registers
    /\ memory = prev.cpu.memory
    /\ output = prev.cpu.output

\* the step that follows an ebreak reaches the debugger's prompt
EbreakThenDebugger == (EbreakDone /\ steps' = steps + 1) => pos' = "debugger"

\* C17: executing ebreak sets the debug flag, advances PC by 4 and changes
\* nothing else; on the following step the debugger is engaged (it prompts
\* for a command) before the next instruction is fetched, so it engages
\* even when that next fetch would fail.
C17_Ebreak == []EbreakEffect /\ [][EbreakThenDebugger]_vars

\* the word at the PC the last step started from
WordRun == MemoryBus_read(prev.cpu.memory, prev.cpu.pc, "Word").val

\* bits 31:20 of the word, sign-extended to 32 bits
SignExtend12(word) ==
  LET field == Hi(word) \div 16
  IN  IF field >= 2048 THEN W(H - 1, H - 4096 + field) ELSE W(0, field)

\* C18: sltiu rd, rs1, imm sets rd to 1 exactly when the value of rs1,
\* read as an unsigned 32-bit number, is less than the 12-bit immediate
\* sign-extended to 32 bits and then read as unsigned (so an immediate with
\* bit 11 set compares against a value of 0xFFFF_F800 or more), and to 0
\* otherwise.
C18_Sltiu ==
  (RanIType({"Sltiu"}) /\ prev.instr.rd # 0) =>
    /\ result.res = "ok"
    /\ registers[prev.instr.rd] =
         IF UnsignedLess(prev.cpu.registers[prev.instr.rs1], SignExtend12(WordRun))
         THEN W(0, 1) ELSE Zero32

\* a + b modulo 2^32, on the halves
Sum32(a, b) ==
  LET lo == Lo(a) + Lo(b)
      hi == Hi(a) + Hi(b) + (lo \div H)
  IN  W(hi % H, lo % H)

\* w & 0xFFFF_F000
UpperBits(w) == W(Hi(w), Lo(w) - (Lo(w) % 4096))

\* C19: for every U-type word w, including those with bit 31 set, lui sets
\* rd = w & 0xFFFF_F000 and auipc sets rd = (PC of the auipc instruction +
\* (w & 0xFFFF_F000)) modulo 2^32; PC then advances by 4.  (rd = x0 is the
\* case of C15.)
C19_UpperImmediate ==
  (Ran("UType") /\ prev.instr.rd # 0) =>
    /\ result.res = "ok"
    /\ registers[prev.instr.rd] =
         IF prev.instr.operation = "Lui" THEN UpperBits(WordRun)
         ELSE Sum32(prev.cpu.pc, UpperBits(WordRun))
    /\ \A r \in 0 .. 31 : r # prev.instr.rd => registers[r] = prev.cpu.registers[r]
    /\ pc = Plus4(prev.cpu.pc)

\* auipc with bit 31 of the word set has run at a PC other than 0
C19_Witness ==
  /\ Ran("UType") /\ prev.instr.operation = "Auipc" /\ prev.instr.rd = 7
  /\ Hi(WordRun) >= 32768
  /\ prev.cpu.pc # Zero32 /\ Hi(prev.cpu.pc) > 0
  /\ result.res = "ok"

\* a word as an unsigned 64-bit value: four 16-bit limbs, lowest first
Limbs64(w) == <<Lo(w), Hi(w), 0, 0>>

\* x + y modulo 2^64
Add64(x, y) ==
  LET s1 == x[1] + y[1]
      s2 == x[2] + y[2] + (s1 \div H)
      s3 == x[3] + y[3] + (s2 \div H)
      s4 == x[4] + y[4] + (s3 \div H)
  IN  <<s1 % H, s2 % H, s3 % H, s4 % H>>

\* x * k modulo 2^64 for a factor k of at most 256
Times64(x, k) ==
  LET s1 == x[1] * k
      s2 == x[2] * k + (s1 \div H)
      s3 == x[3] * k + (s2 \div H)
      s4 == x[4] * k + (s3 \div H)
  IN  <<s1 % H, s2 % H, s3 % H, s4 % H>>

\* the unsigned product a * b, b taken byte by byte from the top:
\* ((b3 * 256 + b2) * 256 + b1) * 256 + b0, each term times a
UnsignedProduct(a, b) ==
  LET x == Limbs64(a)
      t3 == Times64(x, Hi(b) \div 256)
      t2 == Add64(Times64(t3, 256), Times64(x, Hi(b) % 256))
      t1 == Add64(Times64(t2, 256), Times64(x, Lo(b) \div 256))
  IN  Add64(Times64(t1, 256), Times64(x, Lo(b) % 256))

\* a - b modulo 2^32, on the halves
Difference32(a, b) ==
  LET lo == Lo(a) - Lo(b)
      hi == Hi(a) - Hi(b) - (IF lo < 0 THEN 1 ELSE 0)
  IN  W((hi + H) % H, (lo + H) % H)

\* bits 31:0 and bits 63:32 of a 64-bit value
LowWord(v) == W(v[2], v[1])

HighWord(v) == W(v[4], v[3])

\* bits 63:32 of the product when a (b) is read as signed: a negative
\* operand stands for its unsigned value minus 2^32, which takes the other
\* operand off the high word
HighProduct(a, aSigned, b, bSigned) ==
  LET high == HighWord(UnsignedProduct(a, b))
      lessB == IF aSigned /\ Hi(a) >= 32768 THEN Difference32(high, b) ELSE high
  IN  IF bSigned /\ Hi(b) >= 32768 THEN Difference32(lessB, a) ELSE lessB

\* w * 2^n modulo 2^32, for n in 0 .. 31
ShiftedLeft(w, n) ==
  IF n < 16 THEN W((Hi(w) * 2^n + (Lo(w) * 2^n) \div H) % H, (Lo(w) * 2^n) % H)
  ELSE W((Lo(w) * 2^(n - 16)) % H, 0)

\* w divided by 2^n rounding down, w read as unsigned, for n in 0 .. 31
ShiftedRight(w, n) ==
  IF n < 16 THEN W(Hi(w) \div 2^n, (Lo(w) \div 2^n) + (Hi(w) % 2^n) * 2^(16 - n))
  ELSE W(0, Hi(w) \div 2^(n - 16))

\* every bit of w inverted
Inverted(w) == W(H - 1 - Hi(w), H - 1 - Lo(w))

\* w shifted right with copies of its sign bit coming in: for a negative
\* w the zeros that come into its inverse are ones once inverted back
ShiftedRightSigned(w, n) ==
  IF Hi(w) >= 32768 THEN Inverted(ShiftedRight(Inverted(w), n)) ELSE ShiftedRight(w, n)

\* what mul, mulh, mulhsu, mulhu, sll, srl, sra leave in rd for operands a, b
MulShiftValue(operation, a, b) ==
  CASE operation = "Mul" -> LowWord(UnsignedProduct(a, b))
    [] operation = "Mulh" -> HighProduct(a, TRUE, b, TRUE)
    [] operation = "Mulhsu" -> HighProduct(a, TRUE, b, FALSE)
    [] operation = "Mulhu" -> HighProduct(a, FALSE, b, FALSE)
    [] operation = "Sll" -> ShiftedLeft(a, Lo(b) % 32)
    [] operation = "Srl" -> ShiftedRight(a, Lo(b) % 32)
    [] operation = "Sra" -> ShiftedRightSigned(a, Lo(b) % 32)

MulShiftOperations == {"Mul", "Mulh", "Mulhsu", "Mulhu", "Sll", "Srl", "Sra"}

\* C20: for all 32-bit operand values, mul writes the low 32 bits of
\* rs1*rs2; mulh, mulhsu and mulhu write bits 63:32 of the exact product
\* with rs1, rs2 taken as signed*signed, signed*unsigned and
\* unsigned*unsigned; and sll, srl, sra shift by the low 5 bits of rs2 only
\* (sra filling with the sign bit).  (rd = x0 is the case of C15.)
C20_MulShift ==
  (RanRType(MulShiftOperations) /\ prev.instr.rd # 0) =>
    /\ result.res = "ok"
    /\ registers[prev.instr.rd] =
         MulShiftValue(prev.instr.operation, prev.cpu.registers[prev.instr.rs1],
                       prev.cpu.registers[prev.instr.rs2])

\* mulhsu of x6 = -123 by x5 = 0x80C3_A5F1 has given 0xFFFF_FFC2
C20_Witness ==
  /\ RanRType({"Mulhsu"}) /\ result.res = "ok"
  /\ prev.cpu.registers[prev.instr.rs1] = W(65535, 65413)
  /\ prev.cpu.registers[prev.instr.rs2] = W(32963, 42481)
  /\ registers[prev.instr.rd] = W(65535, 65474)

\* the decimal digits of a natural number
RECURSIVE Decimal(_)
Decimal(n) == IF n < 10 THEN <<48 + n>> ELSE Decimal(n \div 10) \o <<48 + (n % 10)>>

\* the decimal text of a word read as a signed 32-bit number
SignedDecimal(w) ==
  IF Hi(w) < 32768 THEN Decimal(Hi(w) * H + Lo(w))
  ELSE <<45>> \o Decimal((H - 1 - Hi(w)) * H + (H - 1 - Lo(w)) + 1)

\* the last step executed an ecall with this number in a7
RanSyscall(numbers) ==
  RanIType({"Ecall"}) /\ prev.cpu.registers[A7] \in {W(0, n) : n \in numbers}

\* C21: ecall with a7 = 1 appends to the output buffer the decimal text of
\* a0 read as a signed 32-bit number (a0 = 0xFFFF_FFFF appends "-1"),
\* with no newline, and changes no register.
C21_PrintInt ==
  RanSyscall({1}) =>
    /\ result.res = "ok"
    /\ output = prev.cpu.output \o SignedDecimal(prev.cpu.registers[A0])
    /\ registers = prev.cpu.registers

\* what step returned for an exit or exit2 ecall, and what the loop did
ExitReturned ==
  /\ RanSyscall({10}) =>
       /\ result = [res |-> "err", err |-> "ProgramExit", code |-> Zero32]
       /\ status = "stopped"
  /\ RanSyscall({93}) =>
       /\ result = [res |-> "err", err |-> "ProgramExit",
                    code |-> prev.cpu.registers[A0]]
       /\ status = "stopped"

\* no step is taken once the loop has stopped on an exiting ecall
NothingAfterExit == ~RanSyscall({10, 93}) /\ status # "stopped"

\* C22: ecall with a7 = 10 makes step return a program-exit error carrying
\* code 0, and with a7 = 93 one carrying the value of a0; the driver loop
\* stops at the first error, so no instruction after the exiting ecall is
\* executed.
C22_Exit == []ExitReturned /\ [][NothingAfterExit]_vars

C22_Witness ==
  /\ RanSyscall({93})
  /\ result.code = W(0, 65)
  /\ status = "stopped"
  /\ Len(loaded.program) = 4
  /\ steps = 3

\* the syscall numbers process_ecall serves
SupportedSyscalls == {W(0, n) : n \in {1, 4, 5, 8, 10, 11, 12, 30, 32, 34, 35, 36, 93}}

\* C23: ecall with a7 holding a number outside 1, 4, 5, 8, 10, 11, 12, 30,
\* 32, 34, 35, 36, 93 makes step return an unsupported-syscall error and
\* leaves the registers, the memory, the PC and the output buffer unchanged.
C23_UnsupportedSyscall ==
  (RanIType({"Ecall"}) /\ prev.cpu.registers[A7] \notin SupportedSyscalls) =>
    /\ result.res = "err"
    /\ result.err = "UnsupportedSyscall"
    /\ registers = prev.cpu.registers
    /\ memory = prev.cpu.memory
    /\ pc = prev.cpu.pc
    /\ output = prev.cpu.output

C23_Witness ==
  /\ RanIType({"Ecall"})
  /\ prev.cpu.registers[A7] = W(1, 1)
  /\ result.err = "UnsupportedSyscall"
  /\ status = "stopped"

\* the syscalls that print: print_int, print_string, print_char and the
\* hexadecimal, binary and unsigned forms of print_int
PrintSyscalls == {1, 4, 11, 34, 35, 36}

\* what a sequence has gained over an earlier value of it
Gained(now, before) == SubSeq(now, Len(before) + 1, Len(now))

\* C24: after any sequence of print syscalls the output buffer equals the
\* characters those syscalls wrote to standard output: each print syscall
\* adds the same characters to both, with no newline or other character
\* added to one of them only.  (Steps that start with the debugger on also
\* print the debugger's own text and are left out.)
C24_OutputMirror ==
  (RanSyscall(PrintSyscalls) /\ ~prev.cpu.debug) =>
    Gained(output, prev.cpu.output) = Gained(stdout, prev.cpu.stdout)

\* the last step executed read_string and read_line returned a line
ReadStringRan == RanSyscall({8}) /\ prev.env.stdin_ok

\* a lies in [a0, a0 + a1) for the a0 and a1 read_string found
InStringBuffer(a) ==
  UnsignedLess(wrapping_sub(a, prev.cpu.registers[A0]), prev.cpu.registers[A1])

\* the offsets in DRAM of the bytes the last step changed
ChangedDram ==
  {k \in DOMAIN memory.dram.data \cup DOMAIN prev.cpu.memory.dram.data :
     DataGet(memory.dram.data, k) # DataGet(prev.cpu.memory.dram.data, k)}

\* the number of bytes of the line read_string may copy
CopyLimit ==
  IF Len(prev.env.stdin) < Lo(prev.cpu.registers[A1]) - 1
  THEN Len(prev.env.stdin) ELSE Lo(prev.cpu.registers[A1]) - 1

\* the buffer holds the first CopyLimit bytes of the line, then a NUL
StringStored ==
  /\ \A i \in 0 .. CopyLimit - 1 :
       ByteAt(memory, wrapping_add(prev.cpu.registers[A0], FromInt(i))) =
         prev.env.stdin[i + 1]
  /\ ByteAt(memory, wrapping_add(prev.cpu.registers[A0], FromInt(CopyLimit))) = 0

\* C25: read_string (a7 = 8) copies at most a1 - 1 bytes of the input line
\* to memory from address a0 on, followed by one NUL byte, and writes only
\* inside [a0, a0 + a1); this holds for every a1, 0 and 1 included, and
\* for input longer than a1.
C25_ReadString ==
  ReadStringRan =>
    /\ result.res # "panic"
    /\ memory.text = prev.cpu.memory.text
    /\ \A k \in ChangedDram : InStringBuffer(wrapping_add(memory.dram.base, k))
    /\ (result.res = "ok" /\ prev.cpu.registers[A1] # Zero32) => StringStored

\* before the first step, prev.cpu is the CPU as Cpu32Bit::new returned it
JustConstructed == steps = 0 /\ status = "running"

\* C26: Cpu32Bit::new yields a CPU with the PC at the entry point, sp =
\* 0x7FFF_EFFC, ra = the entry point, gp = the given value or 0, every
\* other register 0, the debug flag false and an empty output buffer.
C26_New ==
  JustConstructed =>
    /\ prev.cpu.pc = loaded.entry
    /\ \A r \in 0 .. 31 :
         prev.cpu.registers[r] =
           CASE r = 2 -> W(32767, 61436)
             [] r = 1 -> loaded.entry
             [] r = 3 /\ loaded.gp.some -> loaded.gp.val
             [] OTHER -> Zero32
    /\ prev.cpu.debug = FALSE
    /\ prev.cpu.output = <<>>
    /\ registers = prev.cpu.registers /\ pc = prev.cpu.pc /\ output = <<>>

\* constructed with a global pointer and an entry point other than 0
C26_Witness ==
  /\ JustConstructed
  /\ loaded.gp.some /\ loaded.gp.val # Zero32
  /\ loaded.entry # Zero32
  /\ DOMAIN registers = 0 .. 31

\* the region holds the bytes at its base and zero bytes after them
HoldsThenZeros(region, bytes) ==
  /\ DOMAIN region.data \subseteq {FromInt(k) : k \in 0 .. Len(bytes) - 1}
  /\ \A k \in 0 .. Len(bytes) - 1 : DataGet(region.data, FromInt(k)) = bytes[k + 1]

\* the first address after the region, which the addition does not wrap past
RegionEnd(region) == Sum32(region.base, region.size)

\* a lies in [base, base + size) of the region
Serves(region, a) ==
  ~UnsignedLess(a, region.base) /\ UnsignedLess(a, RegionEnd(region))

\* addresses at and around the ends of both regions
LayoutAddresses(bus) ==
  {Sum32(a, d) : a \in {bus.text.base, RegionEnd(bus.text), bus.dram.base,
                        RegionEnd(bus.dram)},
                 d \in {W(H - 1, H - 1), Zero32, W(0, 1)}}

CleanExit == result.err = "ProgramExit" /\ result.code = Zero32

\* C28: the emulator process ends with exit code 0 only when the loop was
\* stopped by exit (a7 = 10) or by exit2 with a0 = 0; when the loop is
\* stopped by any other error (decode, bus, division by zero, unsupported
\* syscall, debugger quit, exit2 with a non-zero code) the exit code is
\* non-zero.
C28_ExitCode == status = "stopped" => (main_exit_code = 0 <=> CleanExit)

\* the operations of each instruction type
OperationsOf(type) ==
  CASE type = "RType" ->
         {"Add", "Sub", "Sll", "Slt", "Sltu", "Xor", "Srl", "Sra", "Or", "And", "Mul",
          "Mulh", "Mulhsu", "Mulhu", "Div", "Divu", "Rem", "Remu"}
    [] type = "IType" ->
         {"Lb", "Lh", "Lw", "Lbu", "Lhu", "Fence", "FenceI", "Addi", "Andi", "Ori",
          "Slli", "Srli", "Srai", "Slti", "Sltiu", "Xori", "Jalr", "Ecall", "Ebreak"}
    [] type = "SType" -> {"Sb", "Sh", "Sw"}
    [] type = "SBType" -> {"Beq", "Bne", "Blt", "Bge", "Bltu", "Bgeu"}
    [] type = "UJType" -> {"Jal"}
    [] type = "UType" -> {"Lui", "Auipc"}
    [] OTHER -> {}

\* the fields of a record of each instruction type
FieldsOf(type) ==
  CASE type = "RType" -> {"type", "operation", "rd", "funct3", "rs1", "rs2", "funct7"}
    [] type = "IType" -> {"type", "operation", "rd", "funct3", "rs1", "imm"}
    [] type \in {"SType", "SBType"} ->
         {"type", "operation", "rs1", "rs2", "funct3", "imm"}
    [] OTHER -> {"type", "operation", "rd", "imm"}

\* d is an instruction record
IsInstruction(d) ==
  /\ DOMAIN d = {"ok", "instr"} /\ d.ok
  /\ "type" \in DOMAIN d.instr
  /\ DOMAIN d.instr = FieldsOf(d.instr.type)
  /\ d.instr.operation \in OperationsOf(d.instr.type)
  /\ \A f \in DOMAIN d.instr \cap {"rd", "rs1", "rs2"} : d.instr[f] \in 0 .. 31
  /\ \A f \in DOMAIN d.instr \cap {"imm"} : d.instr[f] \in Word

\* d is the decode error, and nothing else
IsDecodeError(d) == d = [ok |-> FALSE]

DecodeRefused == status = "decoder" /\ Len(Decodings) = 2 /\ IsDecodeError(Decodings[2])

\* the word that was decoded, and its bit fields
DecodedFrom == loaded.program[1]

Field_rd == (Lo(DecodedFrom) \div 128) % 32

Field_funct3 == (Lo(DecodedFrom) \div 4096) % 8

Field_rs1 == (Hi(DecodedFrom) % 16) * 2 + Lo(DecodedFrom) \div 32768

Field_rs2 == (Hi(DecodedFrom) \div 16) % 32

Field_funct7 == Hi(DecodedFrom) \div 512

\* a 12-bit field sign-extended to 32 bits
Signed12(field) == IF field >= 2048 THEN W(H - 1, H - 4096 + field) ELSE W(0, field)

\* lo <= w <= hi for a word read as signed and bounds within 16 bits
SignedWithin(w, lo, hi) ==
  \/ Hi(w) = 0 /\ Lo(w) <= hi
  \/ Hi(w) = H - 1 /\ Lo(w) >= H + lo

ShiftOperations == {"Slli", "Srli", "Srai"}

\* what the claim says of the record i decoded from the word
FieldsAgree(i) ==
  /\ \A f \in DOMAIN i \cap {"rd", "rs1", "rs2", "funct3", "funct7"} :
       i[f] = CASE f = "rd" -> Field_rd
                [] f = "rs1" -> Field_rs1
                [] f = "rs2" -> Field_rs2
                [] f = "funct3" -> Field_funct3
                [] OTHER -> Field_funct7
  /\ i.type = "IType" =>
       /\ SignedWithin(i.imm, -2048, 2047)
       /\ IF i.operation \in ShiftOperations
          THEN Hi(i.imm) = 0 /\ Lo(i.imm) <= 31 /\ Lo(i.imm) = Field_rs2
          ELSE i.imm = Signed12(Hi(DecodedFrom) \div 16)
  /\ i.type = "SType" =>
       /\ SignedWithin(i.imm, -2048, 2047)
       /\ i.imm = Signed12(Field_funct7 * 32 + Field_rd)
  /\ i.type = "SBType" =>
       /\ SignedWithin(i.imm, -4096, 4094)
       /\ Lo(i.imm) % 2 = 0
  /\ i.type = "UJType" =>
       /\ Hi(i.imm) < 32
       /\ Lo(i.imm) % 2 = 0

\* C30: for every word the decoder accepts, rd, rs1, rs2, funct3, funct7
\* equal word[11:7], word[19:15], word[24:20], word[14:12], word[31:25];
\* I- and S-type immediates lie in [-2048, 2047] and equal the
\* sign-extended encoded 12 bits (for slli, srli and srai, the shift
\* amount word[24:20]); SB immediates are even and lie in [-4096, 4094];
\* UJ immediates are even and below 2^21; and the immediate of slli, srli,
\* srai is at most 31.
C30_DecodedFields ==
  \A k \in 1 .. Len(Decodings) : Decodings[k].ok => FieldsAgree(Decodings[k].instr)

\* the word shifted right by 12 with zero fill: its bits 31:12
UpperField(w) == W(Hi(w) \div 4096, (Hi(w) % 4096) * 16 + Lo(w) \div 4096)

\* C31: for every lui or auipc word w, including those with bit 31 set, the
\* decoded immediate is the 20-bit field w[31:12] right-justified in an
\* unsigned 32-bit value: it equals w >> 12 (logical) and is below 2^20.
C31_UpperField ==
  \A k \in 1 .. Len(Decodings) :
    (Decodings[k].ok /\ Decodings[k].instr.type = "UType") =>
      /\ Decodings[k].instr.imm = UpperField(DecodedFrom)
      /\ Hi(Decodings[k].instr.imm) < 16

Field_opcode == Lo(DecodedFrom) % 128

\* the operation of the record, or "" for the decode error
OperationDecoded(d) == IF d.ok THEN d.instr.operation ELSE ""

\* what the claim says of the result d of decoding the word
ShiftOrSystem(d) ==
  /\ Field_opcode = 19 =>
       /\ OperationDecoded(d) = "Slli" => (Field_funct3 = 1 /\ Field_funct7 = 0)
       /\ OperationDecoded(d) = "Srli" => (Field_funct3 = 5 /\ Field_funct7 = 0)
       /\ OperationDecoded(d) = "Srai" => (Field_funct3 = 5 /\ Field_funct7 = 32)
       /\ OperationDecoded(d) \in ShiftOperations => d.instr.imm = W(0, Field_rs2)
       /\ (Field_funct3 = 1 /\ Field_funct7 # 0) => ~d.ok
       /\ (Field_funct3 = 5 /\ Field_funct7 \notin {0, 32}) => ~d.ok
       /\ Field_funct3 \in {1, 5} => OperationDecoded(d) \in ShiftOperations \cup {""}
  /\ (Field_opcode = 115 /\ Field_funct3 = 0) =>
       /\ OperationDecoded(d) = "Ecall" => Hi(DecodedFrom) \div 16 = 0
       /\ OperationDecoded(d) = "Ebreak" => Hi(DecodedFrom) \div 16 = 1
       /\ Hi(DecodedFrom) \div 16 \notin {0, 1} => ~d.ok
       /\ OperationDecoded(d) \in {"Ecall", "Ebreak", ""}

\* C32: a word with opcode 0010011 decodes to slli only when funct3 = 001
\* and word[31:25] = 0000000, to srli only when funct3 = 101 and
\* word[31:25] = 0000000, to srai only when funct3 = 101 and word[31:25] =
\* 0100000, each with immediate word[24:20]; any other value of
\* word[31:25] with funct3 001 or 101 gives a decode error; and a word with
\* opcode 1110011 and funct3 000 decodes to ecall only for word[31:20] = 0,
\* to ebreak only for word[31:20] = 1, and gives a decode error otherwise.
C32_ShiftsAndSystem == \A k \in 1 .. Len(Decodings) : ShiftOrSystem(Decodings[k])

\* srai by 31 has been decoded
C32_Witness ==
  /\ Len(Decodings) = 1
  /\ OperationDecoded(Decodings[1]) = "Srai"
  /\ Decodings[1].instr.imm = W(0, 31)

\* the last step executed this word with x12 = 0xFE
RanWithFE(word) ==
  /\ prev.executed /\ WordRun = word
  /\ prev.cpu.registers[12] = W(0, 254)

\* C33 as stated: stepping a CPU whose instruction at PC is the word
\* 0x0A867693, with x12 = 0xFE, ends with x13 = 0x0A and PC advanced by 4.
C33_AndiAsStated ==
  RanWithFE(W(2694, 30355)) =>
    /\ result.res = "ok"
    /\ registers[13] = W(0, 10)
    /\ pc = Plus4(prev.cpu.pc)

\* C33, amended: the word 0x0A867693 is `andi x13, x12, 0xA8`; stepping it
\* with x12 = 0xFE ends with x13 = 0xA8 and PC advanced by 4.  The word of
\* `andi x13, x12, 0xA` is 0x00A67693, and stepping that one ends with x13
\* = 0x0A and PC advanced by 4.
C33_Andi ==
  /\ RanWithFE(W(2694, 30355)) =>
       /\ result.res = "ok"
       /\ registers[13] = W(0, 168)
       /\ pc = Plus4(prev.cpu.pc)
  /\ RanWithFE(W(166, 30355)) =>
       /\ result.res = "ok"
       /\ registers[13] = W(0, 10)
       /\ pc = Plus4(prev.cpu.pc)

C33_Witness ==
  /\ RanWithFE(W(2694, 30355))
  /\ prev.instr.operation = "Andi" /\ prev.instr.rd = 13 /\ prev.instr.rs1 = 12
  /\ registers[13] # Zero32

\* the last call of step ended on the debugger's q command
QuitReturned == result.res = "err" /\ result.err = "UserQuit"

\* C34: when the debugger is engaged and the command read is q, step
\* returns a user-quit error without executing the fetched instruction:
\* registers, memory, PC and the output buffer are unchanged, and the
\* driver loop ends.
C34_Quit ==
  QuitReturned =>
    /\ ~prev.executed
    /\ registers = prev.cpu.registers
    /\ memory = prev.cpu.memory
    /\ pc = prev.cpu.pc
    /\ output = prev.cpu.output
    /\ status = "stopped" /\ pos = "loop"

\* q was read with `addi x5, x0, 1` fetched, after an earlier step had run
C34_Witness ==
  /\ QuitReturned
  /\ prev.instr.type = "IType" /\ prev.instr.operation = "Addi" /\ prev.instr.rd = 5
  /\ registers[5] = Zero32
  /\ steps = 2

\* the CPU fields the debugger's own printing does not touch
Machine(c) == <<c.registers, c.pc, c.memory, c.debug, c.output>>

\* the debugger read s or an empty line (or c with an ebreak fetched, which
\* sets the flag again) and step went on to execute
SingleStepRead == pos = "debugger" /\ prev'.executed /\ debug'

\* the step executes the instruction it fetched, once, and the flag stays set
SingleStepped ==
  SingleStepRead =>
    /\ prev'.instr = instruction /\ prev'.cpu = prev.cpu
    /\ steps' = steps
    /\ pos' = "loop"
    /\ \E env \in HostInputs(cpu, instruction) :
         Machine(cpu') = Machine(execute(cpu, instruction, env, overflow_checks).cpu)

\* the loop is about to call step again after a single step
AfterSingleStep ==
  /\ prev.executed /\ prev.cpu.debug
  /\ debug /\ status = "running" /\ pos = "loop"

\* the following step engages the debugger
EngagedAgain == (AfterSingleStep /\ steps' = steps + 1) => pos' = "debugger"

\* C35: when the debugger is engaged and the command read is s or an empty
\* line, exactly the one fetched instruction is executed and the debug flag
\* stays set, so the debugger is engaged again at every following step
\* until a c command is given.
C35_SingleStep == [][SingleStepped]_vars /\ [][EngagedAgain]_vars

\* the debugger read c and step went on to execute (an ebreak sets the
\* flag again at once and is left to the last part of the claim)
ContinueRead == pos = "debugger" /\ prev'.executed /\ ~debug'

\* the flag is cleared and the fetched instruction executed in the same step
Continued ==
  ContinueRead =>
    /\ prev'.instr = instruction /\ prev'.cpu = prev.cpu
    /\ steps' = steps
    /\ pos' = "loop"
    /\ \E env \in HostInputs(cpu, instruction) :
         Machine(cpu') =
           Machine(execute([cpu EXCEPT !.debug = FALSE], instruction, env,
                           overflow_checks).cpu)

\* with the flag clear a step does not engage the debugger, and the flag
\* is set again only by a step that executes an ebreak
RunsFree ==
  /\ (~debug /\ pos = "loop") => pos' = "loop"
  /\ (~debug /\ debug') =>
       /\ prev'.executed
       /\ prev'.instr.type = "IType" /\ prev'.instr.operation = "Ebreak"

\* the debugger reads input only while the flag is set
ReadsWhenEngaged == pos = "debugger" => debug

\* C36: when the debugger is engaged and the command read is c, the debug
\* flag is cleared and the fetched instruction is executed in the same
\* step; in later steps the debugger is not engaged, and no debugger input
\* is read, until an ebreak instruction has been executed.
C36_Continue == []ReadsWhenEngaged /\ [][Continued]_vars /\ [][RunsFree]_vars

\* c was read with `addi x5, x0, 1` fetched, and the addi has been executed
C36_Witness ==
  /\ prev.cpu.debug /\ ~debug
  /\ prev.executed /\ prev.instr.type = "IType" /\ prev.instr.operation = "Addi"
  /\ registers[5] = W(0, 1)
  /\ result.res = "ok"

\* a lies outside the loaded code image: a < entry or a >= entry + len(code)
OutsideImage(a) ==
  \/ UnsignedLess(a, loaded.entry)
  \/ ~UnsignedLess(wrapping_sub(a, loaded.entry), FromInt(Len(LoadedCode)))

\* the last call of step has returned
StepReturned == steps >= 1 /\ pos = "loop"

\* C37: a step whose PC lies outside the loaded code image, i.e. PC < entry
\* or PC >= entry + len(code) (as after the last instruction of a program
\* that does not exit or jump), returns an error and changes no register,
\* no memory byte and not the PC; in particular a straight-line program of
\* n instructions stops with an error at step n + 1.
C37_OutsideImage ==
  (StepReturned /\ OutsideImage(prev.cpu.pc)) =>
    /\ result.res = "err"
    /\ status = "stopped"
    /\ registers = prev.cpu.registers
    /\ memory = prev.cpu.memory
    /\ pc = prev.cpu.pc

\* the debugger read a line that is no command: it prompts again
UnknownRead == pos = "debugger" /\ reads' = reads + 1

\* nothing is executed and no CPU state changes; the screen is drawn again
\* and the debugger still waits
Reprompted ==
  UnknownRead =>
    /\ Machine(cpu') = Machine(cpu)
    /\ pos' = "debugger" /\ status' = "running"
    /\ instruction' = instruction
    /\ prev' = prev /\ ~prev.executed
    /\ steps' = steps /\ result' = result
    /\ Len(stdout') >= Len(stdout) + 2
    /\ SubSeq(stdout', 1, Len(stdout)) = stdout
    /\ SubSeq(stdout', Len(stdout) + 1, Len(stdout) + 2) =
         <<ClearScreenMark, PrintScreenMark>>

\* while the debugger waits, the fetched instruction has not been executed
WaitingUnexecuted ==
  pos = "debugger" =>
    /\ ~prev.executed
    /\ Machine(cpu) = Machine(prev.cpu)
    /\ instruction = prev.instr

\* C38: when the debugger is engaged and the command read is anything other
\* than c, s, the empty line or q, no instruction is executed and no CPU
\* state changes; the debugger prompts again, and this repeats until one
\* of the recognised commands is read.
C38_UnknownCommand == []WaitingUnexecuted /\ [][Reprompted]_vars

\* two lines that are no command have been read, and the debugger waits
C38_Witness ==
  /\ pos = "debugger" /\ reads = 2
  /\ instruction.type = "IType" /\ instruction.operation = "Addi"
  /\ registers[5] = Zero32

DivisionOperations == {"Div", "Divu", "Rem", "Remu"}

\* C39: div, divu, rem and remu return an error if and only if the value of
\* rs2 is zero: for every non-zero divisor, including the signed pair rs1 =
\* 0x8000_0000 and rs2 = 0xFFFF_FFFF, the step succeeds, writes a quotient
\* or remainder to rd and advances PC by 4.  (A destination of x0 is left
\* out here.)
C39_DivisionErrors ==
  (RanRType(DivisionOperations) /\ prev.instr.rd # 0) =>
    IF prev.cpu.registers[prev.instr.rs2] = Zero32
    THEN result.res = "err"
    ELSE /\ result.res = "ok"
         /\ pc = Plus4(prev.cpu.pc)
         /\ \A r \in 0 .. 31 :
              r # prev.instr.rd => registers[r] = prev.cpu.registers[r]

\* a is a prefix of b
IsPrefix(a, b) == Len(a) <= Len(b) /\ SubSeq(b, 1, Len(a)) = a

\* the bytes of the word at the top of DRAM, which the last step printed
\* before its read at 0x8000_0000 failed
TopWordBytes == <<ByteAt(prev.cpu.memory, W(32767, 65532)),
                  ByteAt(prev.cpu.memory, W(32767, 65533)),
                  ByteAt(prev.cpu.memory, W(32767, 65534)),
                  ByteAt(prev.cpu.memory, W(32767, 65535))>>

\* print_string started at 0x7FFF_FFFC on four bytes that are not zero
PrintedOffTheTop ==
  /\ RanSyscall({4})
  /\ prev.cpu.registers[A0] = W(32767, 65532)
  /\ \A i \in 1 .. 4 : TopWordBytes[i] # 0

\* the buffer after the last call of step against the one before it
AppendOnly ==
  /\ IsPrefix(prev.cpu.output, output)
  /\ output # prev.cpu.output => RanSyscall(PrintSyscalls)
  /\ PrintedOffTheTop =>
       (result.res # "ok" /\ output = prev.cpu.output \o TopWordBytes)

\* C40: the output buffer is append-only: across any step, successful or
\* failing, the old buffer content is a prefix of the new one, and the
\* buffer changes only in steps that execute a print syscall; when
\* print_string fails on a memory read part-way through, the characters
\* already emitted stay in the buffer.
C40_AppendOnly == []AppendOnly /\ [][IsPrefix(output, output')]_vars

\* print_string has failed after it had emitted four characters
C40_Witness ==
  /\ PrintedOffTheTop
  /\ result.res # "ok"
  /\ Len(output) = Len(prev.cpu.output) + 4

====
